---- MODULE Spec2Model ----
(***************************************************************************)
(* The dynamic endpoint gateway of vectorclient:                           *)
(*   backend/src/routes/dynamic.ts   POST /:endpoint_id/:user_id handler   *)
(*   backend/src/middleware/rateLimit.ts                                   *)
(* The handler is an async function: every `await` is a point where the    *)
(* event loop may run something else, so each action below is the code     *)
(* between two awaits.  `events` records, in program order, what the       *)
(* handler did to the outside world (replies, store calls, outbound call). *)
(* One inbound request is followed from receipt to completion; handlers of *)
(* different requests share nothing but the stores.                        *)
(***************************************************************************)
EXTENDS Integers, Sequences, FiniteSets, TLC

VARIABLES
    endpoints,          \* table endpoints
    apiTokens,          \* table api_tokens
    endpointApiTokens,  \* table endpoint_api_tokens
    endpointSchemas,    \* table endpoint_schemas
    callLogs,           \* table call_logs, in insertion order
    now,                \* Date.now()
    req,                \* the request being handled: its inputs, locals and position
    events,             \* what the handler has done so far, in order
    buckets,            \* rateLimit.ts: the module-level Map of buckets
    calls,              \* rateLimit.ts: the calls of rateLimitMiddleware in progress
    revocation,         \* tokens.ts: the DELETE /:id request being handled
    managers            \* endpoints.ts: the management requests being handled

vars == <<endpoints, apiTokens, endpointApiTokens, endpointSchemas, callLogs, now, req, events,
          buckets, calls, revocation, managers>>

\* ---------------------------------------------------------------- values

\* null / undefined of a string-valued field
Null == "<null>"

\* null of a timestamp column
NullTime == -1

\* the clock runs from 1 to MaxTime
MaxTime == 2

\* the rate limiter's clock, in milliseconds, runs up to MaxClock in these steps
MaxClock == 1501
ElapseSteps == {250, 1000}

\* the number of calls of the rate limiter that are followed: one caller after
\* the other, or each of two callers at once
MaxCalls == 8
MaxRaceCalls == 1

\* stored bodies are cut to this many units
LogBodyLimit == 10240

\* JS truthiness of a string | undefined | null value
Truthy(s) == s # Null /\ s # ""

\* String.prototype.startsWith, strings being sequences of characters
StartsWith(s, p) == Len(s) >= Len(p) /\ SubSeq(s, 1, Len(p)) = p

HttpPrefix == <<"h", "t", "t", "p", ":", "/", "/">>
HttpsPrefix == <<"h", "t", "t", "p", "s", ":", "/", "/">>

\* EncryptionService.hash: SHA-256, taken to be collision free
Hash(text) == <<"sha256", text>>

\* ---------------------------------------------------------------- fixture

\* a row of endpoints; rate_limit and rate_limit_window_ms at their defaults
Endpoint(id, userId, route, isActive) ==
    [id |-> id, userId |-> userId, route |-> route, isActive |-> isActive,
     rateLimit |-> 100, rateLimitWindowMs |-> 60000]

\* the row with its own rate limit
Limited(endpoint, rateLimit, rateLimitWindowMs) ==
    [endpoint EXCEPT !.rateLimit = rateLimit, !.rateLimitWindowMs = rateLimitWindowMs]

ApiToken(id, userId, key, isActive, expiresAt) ==
    [id |-> id, userId |-> userId, tokenValue |-> Hash(key), isActive |-> isActive,
     expiresAt |-> expiresAt, lastUsedAt |-> NullTime]

\* the value of `endpoint` / `token` when the select returned no row
NoEndpoint == Endpoint(Null, Null, <<>>, FALSE)
NoToken == [id |-> Null, userId |-> Null, tokenValue |-> <<>>, isActive |-> FALSE,
            expiresAt |-> NullTime, lastUsedAt |-> NullTime]

InitEndpoints ==
    { Endpoint("e1", "u1", HttpsPrefix \o <<"a">>, TRUE),      \* protected
      Endpoint("e2", "u1", HttpPrefix \o <<"b">>, TRUE),       \* public
      Endpoint("e3", "u1", HttpsPrefix \o <<"c">>, FALSE),     \* inactive
      Endpoint("e4", "u1", <<"f", "t", "p", ":", "/", "/", "x">>, TRUE),  \* public
      Limited(Endpoint("e5", "u1", <<"/", "w">>, TRUE), 5, 1000),     \* protected
      Limited(Endpoint("e6", "u1", <<"/", "o">>, TRUE), 1, 1000) }    \* public

InitApiTokens ==
    { ApiToken("t1", "u1", "k1", TRUE, NullTime),
      ApiToken("t2", "u1", "k2", TRUE, 1),
      ApiToken("t3", "u1", "k3", TRUE, 0),
      ApiToken("t4", "u1", "k4", FALSE, NullTime),
      ApiToken("t5", "u2", "k5", TRUE, NullTime) }

InitEndpointApiTokens ==
    { [endpointId |-> "e1", apiTokenId |-> "t1"],
      [endpointId |-> "e1", apiTokenId |-> "t2"],
      [endpointId |-> "e1", apiTokenId |-> "t4"],
      [endpointId |-> "e3", apiTokenId |-> "t1"],
      [endpointId |-> "e5", apiTokenId |-> "t1"] }

InitEndpointSchemas ==
    { [endpointId |-> "e1", schemaId |-> "s1", order |-> 1],
      [endpointId |-> "e1", schemaId |-> "s2", order |-> 0],
      [endpointId |-> "e1", schemaId |-> "s3", order |-> 0] }

\* ---------------------------------------------------------------- inputs

EndpointIdInputs == {"e1", "e2", "e3", "e4", "e5", "e9"}
UserIdInputs == {"u1", "u2"}
ApiKeyInputs == {Null, "", "k1", "k2", "k3", "k4", "k5", "kx"}
\* A JavaScript value as far as the handler looks at it: its kind, its own
\* enumerable properties as <<key, value>> pairs in order (the members of an
\* object, the indices of an array or of a string), and the characters of a
\* string or the literal of a number, boolean or null.
Value(kind, members, text) == [kind |-> kind, members |-> members, text |-> text]

\* the index properties "0", "1", ... of an array or a string
Indexed(elements) == [i \in 1..Len(elements) |-> <<ToString(i - 1), elements[i]>>]

\* request.body as parsed by the framework
NoBody == Value("undefined", <<>>, <<>>)
ObjectBody(members) == Value("object", members, <<>>)
ArrayBody(elements) == Value("array", Indexed(elements), <<>>)
StringBody(chars) == Value("string", Indexed(chars), chars)
NumberBody(literal) == Value("number", <<>>, <<literal>>)
BooleanBody(literal) == Value("boolean", <<>>, <<literal>>)
NullBody == Value("null", <<>>, <<"null">>)

\* JS truthiness of a value: undefined, null, "", 0 and false are falsy
Falsy(v) ==
    \/ v.kind \in {"undefined", "null"}
    \/ v.kind = "string" /\ v.text = <<>>
    \/ v.kind = "number" /\ v.text = <<"0">>
    \/ v.kind = "boolean" /\ v.text = <<"false">>

BodyInputs == {NoBody, ObjectBody(<< <<"order_amount", "99.99">> >>)}

\* bodies of every shape: objects with and without the reserved keys, an array,
\* texts that parse to each kind of JSON value and one that does not parse,
\* scalars and null
PayloadBodies ==
    {NoBody, NullBody,
     ObjectBody(<<>>),
     ObjectBody(<< <<"order_amount", "99.99">> >>),
     ObjectBody(<< <<"user_id", "spoofed">>, <<"order_amount", "99.99">> >>),
     ObjectBody(<< <<"user_id", "u2">>, <<"order_amount", "99.99">> >>),
     ObjectBody(<< <<"schema_id", "sx">>, <<"endpoint_id", "e2">>,
                   <<"order_amount", "99.99">> >>),
     ObjectBody(<< <<"schema_id", "sx">> >>),
     ArrayBody(<<"1", "5">>),
     StringBody(<<>>),
     StringBody(<<"h", "i">>),
     StringBody(<<"null">>),
     StringBody(<<"5">>),
     StringBody(<<"'", "h", "i", "'">>),
     StringBody(<<"[", "1", "]">>),
     StringBody(<<"{", "a", ":", "1", "}">>),
     NumberBody("5"), NumberBody("0"), BooleanBody("true")}

\* a text of n units
Units(n) == [i \in 1..n |-> "a"]

\* so many members that their JSON text is longer than the log limit (four
\* units a member)
ManyMembers == [i \in 1..(LogBodyLimit \div 4) |-> <<ToString(<<"k", i>>), "v">>]

\* text bodies one unit below the log limit, at it and one above it, and a short
\* JSON object
LongBodies ==
    {StringBody(Units(n)) : n \in {LogBodyLimit - 1, LogBodyLimit, LogBodyLimit + 1}}
      \cup {ObjectBody(<< <<"order_amount", "99.99">> >>), ObjectBody(ManyMembers)}

\* answers of the destination at the log limit and one unit above it
LongResponseTexts == {Units(n) : n \in {LogBodyLimit, LogBodyLimit + 1}}

PayloadEndpointIds == {"e1", "e2", "e4", "e5"}
PayloadApiKeys == {Null, "k1"}

\* request.headers other than x-api-key
Headers(authorization, userAgent, cookie) ==
    [authorization |-> authorization, userAgent |-> userAgent, cookie |-> cookie]
HeaderInputs == {Headers("Bearer a", "curl", "sid=1")}
PayloadHeaders ==
    {Headers(a, u, c) : a \in {Null, "", "Bearer a"}, u \in {Null, "curl"},
                        c \in {Null, "sid=1"}}

\* what the destination can answer, and what a failing collaborator throws
FetchStatuses == {200, 404, 503}
\* bodies the destination answers with: JSON, the same JSON spaced out, text
\* that is no JSON, and a JSON string
ResponseTexts ==
    {<<"{", "error", ":", "down", "}">>, <<"{", " ", "error", ":", " ", "down", " ", "}">>,
     <<"d", "o", "w", "n">>, <<"'", "o", "k", "'">>}
DbError == "db unavailable"
FetchError == "fetch failed"

\* ---------------------------------------------------------------- events

Ev(kind, code, form, text) == [ev |-> kind, code |-> code, form |-> form, text |-> text]

\* reply.code(code).send({ message })
SendMessage(code, message) == Ev("send", code, "message", <<message>>)
\* a call on a store: db.select / db.insert / db.update on a table
DbCall(kind, table) == Ev(kind, 0, "db", <<table>>)

Count(evs, kind) == Cardinality({i \in 1..Len(evs) : evs[i].ev = kind})
Sends(evs) == Count(evs, "send")
InsertAttempts(evs) == Cardinality({i \in 1..Len(evs) : evs[i] = DbCall("insert", "callLogs")})
Fetches(evs) == Count(evs, "fetch")

\* ---------------------------------------------------------------- logging

\* a nullable text column
NullText == [null |-> TRUE, text |-> <<>>]
Text(s) == [null |-> FALSE, text |-> s]

\* key : value , key : value ...
StringifyMembers(ms) ==
    [j \in 1..(IF ms = <<>> THEN 0 ELSE 4 * Len(ms) - 1) |->
        CASE j % 4 = 1 -> ms[(j + 3) \div 4][1]
          [] j % 4 = 2 -> ":"
          [] j % 4 = 3 -> ms[(j + 3) \div 4][2]
          [] OTHER -> ","]

\* value , value ...
StringifyElements(ms) ==
    [j \in 1..(IF ms = <<>> THEN 0 ELSE 2 * Len(ms) - 1) |->
        IF j % 2 = 1 THEN ms[(j + 1) \div 2][2] ELSE ","]

\* JSON.stringify of a value: text as a sequence of tokens (punctuation, keys,
\* scalars, the characters of a string)
Stringify(body) ==
    CASE body.kind = "object" -> <<"{">> \o StringifyMembers(body.members) \o <<"}">>
      [] body.kind = "array" -> <<"[">> \o StringifyElements(body.members) \o <<"]">>
      [] body.kind = "string" -> <<"'">> \o body.text \o <<"'">>
      [] OTHER -> body.text

Punctuation == {"{", "}", "[", "]", ":", ",", "'", " "}
NumberLiterals == {"0", "1", "5", "99.99"}

ParseError == [ok |-> FALSE, value |-> NoBody]
Parsed(v) == [ok |-> TRUE, value |-> v]

\* JSON.parse of a text: the inverse of Stringify on its token form, white space
\* between tokens skipped; anything else is a SyntaxError
JsonParse(text) ==
    LET ts == SelectSeq(text, LAMBDA c : c # " ")
        n == Len(ts)
        inner == SubSeq(ts, 2, n - 1)
        k == Len(inner)
    IN  IF n = 0 THEN ParseError
        ELSE IF ts[1] = "{" /\ ts[n] = "}" /\ n >= 2
        THEN IF k = 0 THEN Parsed(ObjectBody(<<>>))
             ELSE IF /\ k % 4 = 3
                     /\ \A i \in 1..k :
                          CASE i % 4 = 2 -> inner[i] = ":"
                            [] i % 4 = 0 -> inner[i] = ","
                            [] OTHER -> inner[i] \notin Punctuation
             THEN Parsed(ObjectBody([j \in 1..((k + 1) \div 4) |->
                                        <<inner[4 * j - 3], inner[4 * j - 1]>>]))
             ELSE ParseError
        ELSE IF ts[1] = "[" /\ ts[n] = "]" /\ n >= 2
        THEN IF k = 0 THEN Parsed(ArrayBody(<<>>))
             ELSE IF /\ k % 2 = 1
                     /\ \A i \in 1..k :
                          IF i % 2 = 0 THEN inner[i] = "," ELSE inner[i] \notin Punctuation
             THEN Parsed(ArrayBody([j \in 1..((k + 1) \div 2) |-> inner[2 * j - 1]]))
             ELSE ParseError
        ELSE IF ts[1] = "'" /\ ts[n] = "'" /\ n >= 2
                /\ \A i \in 1..k : inner[i] \notin Punctuation
        THEN Parsed(StringBody(inner))
        ELSE IF n = 1 /\ ts[1] = "null" THEN Parsed(NullBody)
        ELSE IF n = 1 /\ ts[1] \in {"true", "false"} THEN Parsed(BooleanBody(ts[1]))
        ELSE IF n = 1 /\ ts[1] \in NumberLiterals THEN Parsed(NumberBody(ts[1]))
        ELSE ParseError

\* a cut that keeps one unit more
Truncate_OneMore(s) ==
    IF Len(s) > LogBodyLimit THEN SubSeq(s, 1, LogBodyLimit + 1) ELSE s

\* s.length > 10240 ? s.substring(0, 10240) : s
Truncate(s) == IF Len(s) > LogBodyLimit THEN SubSeq(s, 1, LogBodyLimit) ELSE s

\* request.body ? JSON.stringify(request.body) : null, then cut
RequestBodyText(body) ==
    IF Falsy(body) THEN NullText ELSE Text(Truncate(Stringify(body)))

\* the log of a relayed call made from the body that was sent on
OriginalBodyText_Forwarded(body) ==
    IF Falsy(body) THEN NullText ELSE Text(Truncate(req.fetchInit.body))

\* lines 297-302: the original body for the log of a relayed call: a string as
\* it is, anything else through JSON.stringify, then cut
OriginalBodyText(body) ==
    IF Falsy(body) THEN NullText
    ELSE Text(Truncate(IF body.kind = "string" THEN body.text ELSE Stringify(body)))

\* the values handed to db.insert(callLogs)
LogRow(r, endpointId, apiTokenId, status, responseBody, responseTime, errorMessage) ==
    [endpointId |-> endpointId, apiTokenId |-> apiTokenId, method |-> "POST",
     path |-> <<r.endpoint_id, r.user_id>>, status |-> status,
     requestBody |-> RequestBodyText(r.body), responseBody |-> responseBody,
     responseTime |-> responseTime, errorMessage |-> errorMessage]

NoRow == [endpointId |-> Null, apiTokenId |-> Null, method |-> Null, path |-> <<>>,
          status |-> 0, requestBody |-> NullText, responseBody |-> NullText,
          responseTime |-> 0, errorMessage |-> Null]

\* ---------------------------------------------------------------- queries

\* const [row] = await db.select()...limit(1): any matching row, or none
FirstOf(rows, none) == IF rows = {} THEN {none} ELSE rows

\* the lookup with the isActive condition left out
FindEndpoint_AnyState(endpointId, userId) ==
    FirstOf({e \in endpoints : e.id = endpointId /\ e.userId = userId}, NoEndpoint)

\* endpoints where id, userId match and isActive (dynamic.ts 28-38)
FindEndpoint(endpointId, userId) ==
    FirstOf({e \in endpoints : e.id = endpointId /\ e.userId = userId /\ e.isActive}, NoEndpoint)

\* endpoints where id, userId match, active or not (dynamic.ts 391-400)
FindEndpointAnyState(endpointId, userId) ==
    FirstOf({e \in endpoints : e.id = endpointId /\ e.userId = userId}, NoEndpoint)

\* api_tokens where tokenValue is the hash of the key and isActive
FindActiveToken(apiKey) ==
    FirstOf({t \in apiTokens : t.tokenValue = Hash(apiKey) /\ t.isActive}, NoToken)

\* api_tokens where tokenValue is the hash of the key (dynamic.ts 409-413)
FindTokenAnyState(apiKey) ==
    FirstOf({t \in apiTokens : t.tokenValue = Hash(apiKey)}, NoToken)

\* the expiry comparison turned around
IsExpired_Reversed(token, time) == token.expiresAt # NullTime /\ token.expiresAt > time

\* token.expiresAt && new Date(token.expiresAt) < new Date()
IsExpired(token, time) == token.expiresAt # NullTime /\ token.expiresAt < time

\* is there an endpoint_api_tokens row for this endpoint and token
IsAssociated(endpointId, tokenId) ==
    \E a \in endpointApiTokens : a.endpointId = endpointId /\ a.apiTokenId = tokenId

\* the result of the select ignored: no endpoint ever requires a token
RequiresToken_Never(endpointId) == FALSE

\* the select without its where clause: any association of any endpoint counts
RequiresToken_Unfiltered(endpointId) == \E a \in endpointApiTokens : TRUE

\* associatedTokens.length > 0: the endpoint has at least one token
RequiresToken(endpointId) ==
    \E a \in endpointApiTokens : a.endpointId = endpointId

\* the schema rows of the endpoint with the least order (orderBy asc, limit 1)
FirstSchemaIds(endpointId) ==
    LET rows == {s \in endpointSchemas : s.endpointId = endpointId}
    IN  IF rows = {} THEN {Null}
        ELSE {s.schemaId : s \in {x \in rows : \A y \in rows : x.order <= y.order}}

\* the route is forwarded to only if it is a full URL
IsFullUrl(route) == StartsWith(route, HttpPrefix) \/ StartsWith(route, HttpsPrefix)

\* ---------------------------------------------------------------- forwarding

\* the keys the gateway sets itself
ReservedKeys == {"user_id", "endpoint_id", "schema_id"}

Keys(ms) == {ms[i][1] : i \in 1..Len(ms)}
Get(ms, key) == LET i == CHOOSE i \in 1..Len(ms) : ms[i][1] = key IN ms[i][2]

\* property enumeration order: the index keys first, ascending, then the other
\* keys as they were added (index keys are those an array or a string of the
\* same length has)
PropertyOrder(ms) ==
    LET indexKeys == [i \in 1..Len(ms) |-> ToString(i - 1)]
        indexKeySet == {indexKeys[i] : i \in 1..Len(ms)}
        keys == Keys(ms)
        present == SelectSeq(indexKeys, LAMBDA k : k \in keys)
    IN  [j \in 1..Len(present) |-> <<present[j], Get(ms, present[j])>>]
          \o SelectSeq(ms, LAMBDA m : m[1] \notin indexKeySet)

\* { ...a, ...b }, a and b being objects (the keys of each are distinct): a key
\* of a that b has too keeps its place and takes b's value, the other keys of b
\* follow
Assign(ms, more) ==
    LET keys == Keys(ms)
        moreKeys == Keys(more)
    IN  [i \in 1..Len(ms) |->
            IF ms[i][1] \in moreKeys THEN <<ms[i][1], Get(more, ms[i][1])>> ELSE ms[i]]
          \o SelectSeq(more, LAMBDA m : m[1] \notin keys)

\* lines 263-277: the value whose keys are merged. An object or array body is
\* spread into a fresh object; a string body goes through JSON.parse, {} when
\* that throws; any other truthy body is taken as it is.
RequestBodyObj(body) ==
    IF ~Falsy(body) /\ body.kind \in {"object", "array"} THEN ObjectBody(body.members)
    ELSE IF Falsy(body) THEN ObjectBody(<<>>)
    ELSE IF body.kind = "string"
    THEN (IF JsonParse(body.text).ok THEN JsonParse(body.text).value ELSE ObjectBody(<<>>))
    ELSE body

\* Object.keys(null) and Object.keys(undefined) throw a TypeError
KeysThrow(obj) == obj.kind \in {"null", "undefined"}
KeysError == "Cannot convert undefined or null to object"

\* the caller's keys spread over the gateway's own
ForwardingBody_Unfiltered(userId, endpointId, schemaId, obj) ==
    ObjectBody(PropertyOrder(Assign(<< <<"user_id", userId>>, <<"endpoint_id", endpointId>> >>
                        \o (IF Truthy(schemaId) THEN << <<"schema_id", schemaId>> >> ELSE <<>>),
                      obj.members)))

\* schema_id set whether or not a schema is associated
ForwardingBody_AlwaysSchema(userId, endpointId, schemaId, obj) ==
    ObjectBody(PropertyOrder(Assign(<< <<"user_id", userId>>, <<"endpoint_id", endpointId>>,
                         <<"schema_id", schemaId>> >>,
                      SelectSeq(obj.members, LAMBDA m : m[1] \notin ReservedKeys))))

\* the caller's keys dropped altogether
ForwardingBody_CanonicalOnly(userId, endpointId, schemaId, obj) ==
    ObjectBody(<< <<"user_id", userId>>, <<"endpoint_id", endpointId>> >>
                 \o (IF Truthy(schemaId) THEN << <<"schema_id", schemaId>> >> ELSE <<>>))

\* lines 280-292: user_id, endpoint_id, schema_id when there is one, then the
\* keys of requestBodyObj other than those three
ForwardingBody(userId, endpointId, schemaId, obj) ==
    ObjectBody(PropertyOrder(Assign(<< <<"user_id", userId>>, <<"endpoint_id", endpointId>> >>
                        \o (IF Truthy(schemaId) THEN << <<"schema_id", schemaId>> >> ELSE <<>>),
                      SelectSeq(obj.members, LAMBDA m : m[1] \notin ReservedKeys))))

\* every inbound header copied
FetchHeaders_CopyAll(headers, apiKey) ==
    << <<"Content-Type", "application/json">> >>
      \o (IF Truthy(headers.authorization)
          THEN << <<"Authorization", headers.authorization>> >> ELSE <<>>)
      \o (IF Truthy(headers.userAgent)
          THEN << <<"User-Agent", headers.userAgent>> >> ELSE <<>>)
      \o (IF Truthy(headers.cookie) THEN << <<"Cookie", headers.cookie>> >> ELSE <<>>)
      \o (IF Truthy(apiKey) THEN << <<"x-api-key", apiKey>> >> ELSE <<>>)

\* lines 330-334: Content-Type, then Authorization and User-Agent when truthy
FetchHeaders(headers, apiKey) ==
    << <<"Content-Type", "application/json">> >>
      \o (IF Truthy(headers.authorization)
          THEN << <<"Authorization", headers.authorization>> >> ELSE <<>>)
      \o (IF Truthy(headers.userAgent)
          THEN << <<"User-Agent", headers.userAgent>> >> ELSE <<>>)

\* the arguments of fetch(targetUrl, {method, headers, body})
FetchInit(url, headers, body) ==
    [url |-> url, method |-> "POST", headers |-> headers, body |-> body]
NoFetch == [url |-> Null, method |-> Null, headers |-> <<>>, body |-> <<>>]

\* forwardResponse: the destination's status and the text of its body
NoResponse == [status |-> 0, text |-> <<>>]

\* ---------------------------------------------------------------- handler

\* app.addHook('onRequest', rateLimitMiddleware) is commented out: the route
\* has no onRequest hook
OnRequestHooks == <<>>

IdleReq ==
    [pc |-> "idle", endpoint_id |-> Null, user_id |-> Null, apiKey |-> Null,
     body |-> NoBody, startTime |-> 0, endpoint |-> NoEndpoint, token |-> NoToken,
     apiTokenId |-> Null, statusCode |-> 500, errorMessage |-> Null,
     schemaId |-> Null, responseTime |-> 0, row |-> NoRow, errorEndpoint |-> NoEndpoint,
     headers |-> Headers(Null, Null, Null), fetchInit |-> NoFetch,
     forwardResponse |-> NoResponse]

\* the handler's locals and its trace after a piece of code has run
Out(r, evs) == [req |-> r, events |-> evs]

\* errorMessage || 'Internal server error'
ErrorBody(msg) == IF msg = "" THEN "Internal server error" ELSE msg

\* catch (error): reply 500, then look the endpoint up again for the log
Catch(r, evs, msg, time) ==
    LET r1 == [r EXCEPT !.statusCode = 500, !.errorMessage = msg,
                        !.responseTime = time - r.startTime]
        sent == Append(evs, SendMessage(500, ErrorBody(msg)))
    IN  IF Truthy(r.endpoint_id) /\ Truthy(r.user_id)
        THEN Out([r1 EXCEPT !.pc = "catchSelEndpoint"],
                 Append(sent, DbCall("select", "endpoints")))
        ELSE Out([r1 EXCEPT !.pc = "done"], sent)

\* the insert started before the reply is sent
RespondThenLog_LogFirst(evs, reply) == evs \o <<DbCall("insert", "callLogs"), reply>>

\* reply first, then start the insert of the call log
RespondThenLog(evs, reply) == evs \o <<reply, DbCall("insert", "callLogs")>>

\* a 403 exit whose `return` is missing: the handler replies, logs and goes on
Reject403_NoReturn(r, evs, message, apiTokenId, time) ==
    Out([r EXCEPT !.pc = "selSchemas", !.statusCode = 403, !.errorMessage = message],
        RespondThenLog(evs, SendMessage(403, message))
            \o <<DbCall("select", "endpointSchemas")>>)

\* a 403 exit that logs apiTokenId: null whatever credential matched
Reject403_NullCredential(r, evs, message, apiTokenId, time) ==
    Out([r EXCEPT !.pc = "insLog", !.statusCode = 403, !.errorMessage = message,
                  !.responseTime = time - r.startTime,
                  !.row = LogRow(r, r.endpoint.id, Null, 403, NullText,
                                 time - r.startTime, message)],
        RespondThenLog(evs, SendMessage(403, message)))

\* the four 403 exits: reply.code(403).send({ message }), then log and return
Reject403(r, evs, message, apiTokenId, time) ==
    Out([r EXCEPT !.pc = "insLog", !.statusCode = 403, !.errorMessage = message,
                  !.responseTime = time - r.startTime,
                  !.row = LogRow(r, r.endpoint.id, apiTokenId, 403, NullText,
                                 time - r.startTime, message)],
        RespondThenLog(evs, SendMessage(403, message)))

\* lines 40-58 and 206-212: after the endpoint select
AfterEndpoint(r, evs, ep) ==
    IF ep = NoEndpoint
    THEN Out([r EXCEPT !.pc = "done", !.statusCode = 404,
                       !.errorMessage = "Endpoint not found or inactive"],
             Append(evs, SendMessage(404, "Endpoint not found or inactive")))
    ELSE IF Truthy(r.apiKey)
    THEN Out([r EXCEPT !.pc = "selToken", !.endpoint = ep],
             Append(evs, DbCall("select", "apiTokens")))
    ELSE Out([r EXCEPT !.pc = "selAssocAny", !.endpoint = ep],
             Append(evs, DbCall("select", "endpointApiTokens")))

\* lines 75-160: after the token select
AfterToken(r, evs, tok, time) ==
    IF tok = NoToken
    THEN Reject403(r, evs, "Invalid API token", Null, time)
    ELSE IF IsExpired(tok, time)
    THEN Reject403(r, evs, "API token has expired", tok.id, time)
    ELSE Out([r EXCEPT !.pc = "selAssoc", !.token = tok],
             Append(evs, DbCall("select", "endpointApiTokens")))

\* the association check waived on an endpoint that has no token at all
AfterAssociation_PublicPass(r, evs, found, time) ==
    IF ~found /\ RequiresToken(r.endpoint_id)
    THEN Reject403(r, evs, "API token is not authorized for this endpoint", r.token.id, time)
    ELSE Out([r EXCEPT !.pc = "updLastUsed", !.apiTokenId = r.token.id],
             Append(evs, DbCall("update", "apiTokens")))

\* the association exit replying with the message of the token exit
AfterAssociation_InvalidMessage(r, evs, found, time) ==
    IF ~found
    THEN Reject403(r, evs, "Invalid API token", r.token.id, time)
    ELSE Out([r EXCEPT !.pc = "updLastUsed", !.apiTokenId = r.token.id],
             Append(evs, DbCall("update", "apiTokens")))

\* lines 162-205: after the association select
AfterAssociation(r, evs, found, time) ==
    IF ~found
    THEN Reject403(r, evs, "API token is not authorized for this endpoint", r.token.id, time)
    ELSE Out([r EXCEPT !.pc = "updLastUsed", !.apiTokenId = r.token.id],
             Append(evs, DbCall("update", "apiTokens")))

\* lines 214-258: after the select of the endpoint's tokens, no key presented
AfterAssociatedTokens(r, evs, required, time) ==
    IF required
    THEN Reject403(r, evs, "API token required", Null, time)
    ELSE Out([r EXCEPT !.pc = "selSchemas"], Append(evs, DbCall("select", "endpointSchemas")))

\* the 400 exit returning without a reply
AfterSchemas_Silent400(r, evs, schemaId, time) ==
    LET obj == RequestBodyObj(r.body)
    IN  IF KeysThrow(obj)
        THEN Catch([r EXCEPT !.schemaId = schemaId], evs, KeysError, time)
        ELSE IF ~IsFullUrl(r.endpoint.route)
        THEN Out([r EXCEPT !.pc = "done", !.schemaId = schemaId, !.statusCode = 400], evs)
        ELSE Out([r EXCEPT !.pc = "fetch", !.schemaId = schemaId,
                           !.fetchInit = FetchInit(r.endpoint.route,
                               FetchHeaders(r.headers, r.apiKey),
                               Stringify(ForwardingBody(r.user_id, r.endpoint_id, schemaId, obj)))],
                 Append(evs, Ev("fetch", 0, "POST", r.endpoint.route)))

\* a route of any scheme forwarded
AfterSchemas_AnyRoute(r, evs, schemaId, time) ==
    LET obj == RequestBodyObj(r.body)
    IN  IF KeysThrow(obj)
        THEN Catch([r EXCEPT !.schemaId = schemaId], evs, KeysError, time)
        ELSE Out([r EXCEPT !.pc = "fetch", !.schemaId = schemaId,
                           !.fetchInit = FetchInit(r.endpoint.route,
                               FetchHeaders(r.headers, r.apiKey),
                               Stringify(ForwardingBody(r.user_id, r.endpoint_id, schemaId, obj)))],
                 Append(evs, Ev("fetch", 0, "POST", r.endpoint.route)))

\* lines 260-336: after the schema select: build the body, check the route, forward
AfterSchemas(r, evs, schemaId, time) ==
    LET obj == RequestBodyObj(r.body)
    IN  IF KeysThrow(obj)
        THEN Catch([r EXCEPT !.schemaId = schemaId], evs, KeysError, time)
        ELSE IF ~IsFullUrl(r.endpoint.route)
        THEN Out([r EXCEPT !.pc = "done", !.schemaId = schemaId, !.statusCode = 400,
                           !.errorMessage = "Route must be a full URL (starting with http:// or https://)"],
                 Append(evs, SendMessage(400, "Route must be a full URL (starting with http:// or https://)")))
        ELSE Out([r EXCEPT !.pc = "fetch", !.schemaId = schemaId,
                           !.fetchInit = FetchInit(r.endpoint.route,
                               FetchHeaders(r.headers, r.apiKey),
                               Stringify(ForwardingBody(r.user_id, r.endpoint_id, schemaId, obj)))],
                 Append(evs, Ev("fetch", 0, "POST", r.endpoint.route)))

\* reply.send(payload): a string goes out as it is, any other value as its
\* JSON text
Payload(code, value) ==
    IF value.kind = "string" THEN Ev("send", code, "text", value.text)
    ELSE Ev("send", code, "json", Stringify(value))

\* lines 342-347: JSON.parse(responseText), the text itself when that throws
ParsedResponse(text) ==
    IF JsonParse(text).ok THEN JsonParse(text).value ELSE StringBody(text)

\* every answer relayed as 200
AfterResponseText_Ok(r, evs, text, time) ==
    Out([r EXCEPT !.pc = "insLog", !.responseTime = time - r.startTime,
                  !.forwardResponse.text = text,
                  !.row = [LogRow(r, r.endpoint.id, r.apiTokenId, r.statusCode,
                                  Text(Truncate(text)), time - r.startTime, Null)
                             EXCEPT !.requestBody = OriginalBodyText(r.body)]],
        RespondThenLog(evs, Payload(200, ParsedResponse(text))))

\* lines 338-375: after the destination's body has been read
AfterResponseText(r, evs, text, time) ==
    Out([r EXCEPT !.pc = "insLog", !.responseTime = time - r.startTime,
                  !.forwardResponse.text = text,
                  !.row = [LogRow(r, r.endpoint.id, r.apiTokenId, r.statusCode,
                                  Text(Truncate(text)), time - r.startTime, Null)
                             EXCEPT !.requestBody = OriginalBodyText(r.body)]],
        RespondThenLog(evs, Payload(r.statusCode, ParsedResponse(text))))

\* the insert not wrapped in its own try: its failure reaches the outer catch
InsertFailed_Rethrown(r, evs, time) == Catch(r, evs, DbError, time)

\* catch (logError) around an insert of the main path: logged to the console only
InsertFailed(r, evs, time) == Out([r EXCEPT !.pc = "done"], evs)

\* the catch block's log written without the error message
CatchLog_NoMessage(r, evs, ep, errorApiTokenId) ==
    Out([r EXCEPT !.pc = "catchInsLog",
                  !.row = LogRow(r, ep.id, errorApiTokenId, r.statusCode, NullText,
                                 r.responseTime, Null)],
        Append(evs, DbCall("insert", "callLogs")))

\* lines 402-444: the catch block's log, once the endpoint was found again
CatchLog(r, evs, ep, errorApiTokenId) ==
    Out([r EXCEPT !.pc = "catchInsLog",
                  !.row = LogRow(r, ep.id, errorApiTokenId, r.statusCode, NullText,
                                 r.responseTime, r.errorMessage)],
        Append(evs, DbCall("insert", "callLogs")))

\* lines 391-420: after the catch block's endpoint select
AfterCatchEndpoint(r, evs, ep) ==
    IF ep = NoEndpoint
    THEN Out([r EXCEPT !.pc = "done"], evs)
    ELSE IF Truthy(r.apiKey)
    THEN Out([r EXCEPT !.pc = "catchSelToken", !.errorEndpoint = ep],
             Append(evs, DbCall("select", "apiTokens")))
    ELSE CatchLog(r, evs, ep, Null)

\* the update with its where clause left out: every token is touched
TouchToken_All(tokens, id, time) == {[t EXCEPT !.lastUsedAt = time] : t \in tokens}

\* update apiTokens set lastUsedAt = new Date() where id = token.id
TouchToken(tokens, id, time) ==
    {IF t.id = id THEN [t EXCEPT !.lastUsedAt = time] ELSE t : t \in tokens}

Apply(o) == req' = o.req /\ events' = o.events

Stores == <<endpoints, apiTokens, endpointApiTokens, endpointSchemas, callLogs>>

\* the state of the rate limiter, which the route handler never touches
Limiter == <<buckets, calls>>

\* lines 15-38: a POST arrives; the handler reads the route parameters and
\* starts the endpoint lookup
ReceiveFrom(endpointIds, userIds, apiKeys, bodies, headerSets) ==
    /\ req.pc = "idle"
    /\ \E e \in endpointIds, u \in userIds, k \in apiKeys, b \in bodies, h \in headerSets :
         req' = [IdleReq EXCEPT !.pc = "selEndpoint", !.endpoint_id = e, !.user_id = u,
                                !.apiKey = k, !.body = b, !.headers = h, !.startTime = now]
    /\ events' = events
                    \o [i \in 1..Len(OnRequestHooks) |->
                          Ev("hook", 0, "onRequest", <<OnRequestHooks[i]>>)]
                    \o <<DbCall("select", "endpoints")>>
    /\ UNCHANGED <<Stores, now, Limiter, revocation, managers>>

Receive == ReceiveFrom(EndpointIdInputs, UserIdInputs, ApiKeyInputs, BodyInputs, HeaderInputs)

\* requests of every body shape and header combination, to a protected and a
\* public endpoint and to two whose routes are no http(s) URLs
ReceivePayload ==
    ReceiveFrom(PayloadEndpointIds, {"u1"}, PayloadApiKeys, PayloadBodies, PayloadHeaders)

SelectEndpoint ==
    /\ req.pc = "selEndpoint"
    /\ \/ Apply(Catch(req, events, DbError, now))
       \/ \E ep \in FindEndpoint(req.endpoint_id, req.user_id) : Apply(AfterEndpoint(req, events, ep))
    /\ UNCHANGED <<Stores, now, Limiter, revocation, managers>>

SelectToken ==
    /\ req.pc = "selToken"
    /\ \/ Apply(Catch(req, events, DbError, now))
       \/ \E tok \in FindActiveToken(req.apiKey) : Apply(AfterToken(req, events, tok, now))
    /\ UNCHANGED <<Stores, now, Limiter, revocation, managers>>

SelectAssociation ==
    /\ req.pc = "selAssoc"
    /\ \/ Apply(Catch(req, events, DbError, now))
       \/ Apply(AfterAssociation(req, events, IsAssociated(req.endpoint_id, req.token.id), now))
    /\ UNCHANGED <<Stores, now, Limiter, revocation, managers>>

UpdateLastUsed ==
    /\ req.pc = "updLastUsed"
    /\ \/ /\ Apply(Catch(req, events, DbError, now))
          /\ UNCHANGED apiTokens
       \/ /\ apiTokens' = TouchToken(apiTokens, req.token.id, now)
          /\ Apply(Out([req EXCEPT !.pc = "selSchemas"],
                       Append(events, DbCall("select", "endpointSchemas"))))
    /\ UNCHANGED <<endpoints, endpointApiTokens, endpointSchemas, callLogs, now, Limiter, revocation, managers>>

SelectAssociatedTokens ==
    /\ req.pc = "selAssocAny"
    /\ \/ Apply(Catch(req, events, DbError, now))
       \/ Apply(AfterAssociatedTokens(req, events, RequiresToken(req.endpoint_id), now))
    /\ UNCHANGED <<Stores, now, Limiter, revocation, managers>>

SelectSchemas ==
    /\ req.pc = "selSchemas"
    /\ \/ Apply(Catch(req, events, DbError, now))
       \/ \E sid \in FirstSchemaIds(req.endpoint_id) : Apply(AfterSchemas(req, events, sid, now))
    /\ UNCHANGED <<Stores, now, Limiter, revocation, managers>>

\* a failed call made again instead of thrown
Fetch_Retry ==
    /\ req.pc = "fetch"
    /\ \/ Apply(Out(req, Append(events, Ev("fetch", 0, "POST", req.endpoint.route))))
       \/ \E status \in FetchStatuses :
            Apply(Out([req EXCEPT !.pc = "readText", !.statusCode = status,
                                  !.forwardResponse = [status |-> status, text |-> <<>>]],
                      events))
    /\ UNCHANGED <<Stores, now, Limiter, revocation, managers>>

\* await fetch(targetUrl, ...): it throws, or the destination answers
Fetch ==
    /\ req.pc = "fetch"
    /\ \/ Apply(Catch(req, events, FetchError, now))
       \/ \E status \in FetchStatuses :
            Apply(Out([req EXCEPT !.pc = "readText", !.statusCode = status,
                                  !.forwardResponse = [status |-> status, text |-> <<>>]],
                      events))
    /\ UNCHANGED <<Stores, now, Limiter, revocation, managers>>

\* await forwardResponse.text(): it throws, or gives the body
ReadResponseTextFrom(texts) ==
    /\ req.pc = "readText"
    /\ \/ Apply(Catch(req, events, FetchError, now))
       \/ \E text \in texts : Apply(AfterResponseText(req, events, text, now))
    /\ UNCHANGED <<Stores, now, Limiter, revocation, managers>>

ReadResponseText == ReadResponseTextFrom(ResponseTexts)

\* the destination answers with a body around the log limit
ReadLongResponseText == ReadResponseTextFrom(LongResponseTexts)

\* requests with bodies around the log limit
ReceiveLong ==
    ReceiveFrom({"e1", "e2"}, {"u1"}, {Null, "k1", "kx"}, LongBodies, HeaderInputs)

InsertLog ==
    /\ req.pc = "insLog"
    /\ \/ /\ Apply(InsertFailed(req, events, now))
          /\ UNCHANGED callLogs
       \/ /\ callLogs' = Append(callLogs, req.row)
          /\ Apply(Out([req EXCEPT !.pc = "done"], events))
    /\ UNCHANGED <<endpoints, apiTokens, endpointApiTokens, endpointSchemas, now, Limiter, revocation, managers>>

CatchSelectEndpoint ==
    /\ req.pc = "catchSelEndpoint"
    /\ \/ Apply(Out([req EXCEPT !.pc = "done"], events))
       \/ \E ep \in FindEndpointAnyState(req.endpoint_id, req.user_id) :
            Apply(AfterCatchEndpoint(req, events, ep))
    /\ UNCHANGED <<Stores, now, Limiter, revocation, managers>>

CatchSelectToken ==
    /\ req.pc = "catchSelToken"
    /\ \/ Apply(CatchLog(req, events, req.errorEndpoint, Null))
       \/ \E tok \in FindTokenAnyState(req.apiKey) :
            Apply(CatchLog(req, events, req.errorEndpoint, tok.id))
    /\ UNCHANGED <<Stores, now, Limiter, revocation, managers>>

CatchInsertLog ==
    /\ req.pc = "catchInsLog"
    /\ \/ UNCHANGED callLogs
       \/ callLogs' = Append(callLogs, req.row)
    /\ Apply(Out([req EXCEPT !.pc = "done"], events))
    /\ UNCHANGED <<endpoints, apiTokens, endpointApiTokens, endpointSchemas, now, Limiter, revocation, managers>>

\* time passes
Tick ==
    /\ now < MaxTime
    /\ now' = now + 1
    /\ UNCHANGED <<Stores, req, events, Limiter, revocation, managers>>

\* ---------------------------------------------------------------- rate limiter

\* the callers of rateLimitMiddleware that can be in flight together
Callers == {1, 2}

\* const buckets = new Map(): keys are <<request.ip, endpoint.id>>
NoBuckets == <<>>

\* a call that has not started
IdleCall == [pc |-> "idle", url |-> <<>>, ip |-> Null, outcome |-> Null, n |-> 0]

\* Token counts are fractions; with elapsed times in whole milliseconds every
\* count is a multiple of 1 / rateLimitWindowMs, and the model keeps the count
\* in that unit: one token is rateLimitWindowMs units.
OneToken(endpoint) == endpoint.rateLimitWindowMs
FullBucket(endpoint) == endpoint.rateLimit * endpoint.rateLimitWindowMs

Min(a, b) == IF a <= b THEN a ELSE b

\* a refill at twice the rate
Refill_Twice(bucket, endpoint, time) ==
    Min(FullBucket(endpoint),
        bucket.tokens + 2 * (time - bucket.lastRefill) * endpoint.rateLimit)

\* a refill without the cap
Refill_Uncapped(bucket, endpoint, time) ==
    bucket.tokens + (time - bucket.lastRefill) * endpoint.rateLimit

\* lines 47-49: Math.min(rateLimit, tokens + elapsed / windowMs * rateLimit)
Refill(bucket, endpoint, time) ==
    Min(FullBucket(endpoint),
        bucket.tokens + (time - bucket.lastRefill) * endpoint.rateLimit)

\* what the limiter did for a key: the decision, the count it decided on
Decision(kind, time, key, tokens) ==
    Ev(kind, time, "rateLimit", <<key[1], key[2], ToString(tokens)>>)

TooMany == Ev("send", 429, "error", <<"Rate limit exceeded">>)

\* a call that keeps its own bucket only
CheckBucket_Alone(map, key, endpoint, time) ==
    LET known == key \in DOMAIN map
        bucket == IF known
                  THEN [tokens |-> Refill(map[key], endpoint, time), lastRefill |-> time]
                  ELSE [tokens |-> FullBucket(endpoint), lastRefill |-> time]
    IN  IF bucket.tokens < OneToken(endpoint)
        THEN [outcome |-> "rejected",
              buckets |-> IF known THEN [map EXCEPT ![key] = bucket] ELSE map,
              events |-> <<Decision("reject", time, key, bucket.tokens), TooMany>>]
        ELSE [outcome |-> "admitted",
              buckets |-> (key :> [bucket EXCEPT !.tokens = @ - OneToken(endpoint)]),
              events |-> <<Decision("admit", time, key, bucket.tokens)>>]

\* an admitted call that takes no token
CheckBucket_NoDecrement(map, key, endpoint, time) ==
    LET known == key \in DOMAIN map
        bucket == IF known
                  THEN [tokens |-> Refill(map[key], endpoint, time), lastRefill |-> time]
                  ELSE [tokens |-> FullBucket(endpoint), lastRefill |-> time]
    IN  IF bucket.tokens < OneToken(endpoint)
        THEN [outcome |-> "rejected",
              buckets |-> IF known THEN [map EXCEPT ![key] = bucket] ELSE map,
              events |-> <<Decision("reject", time, key, bucket.tokens), TooMany>>]
        ELSE [outcome |-> "admitted",
              buckets |-> (key :> bucket) @@ map,
              events |-> <<Decision("admit", time, key, bucket.tokens)>>]

\* a rejected call that takes a token all the same
CheckBucket_RejectTakes(map, key, endpoint, time) ==
    LET known == key \in DOMAIN map
        bucket == IF known
                  THEN [tokens |-> Refill(map[key], endpoint, time), lastRefill |-> time]
                  ELSE [tokens |-> FullBucket(endpoint), lastRefill |-> time]
    IN  IF bucket.tokens < OneToken(endpoint)
        THEN [outcome |-> "rejected",
              buckets |-> (key :> [bucket EXCEPT !.tokens = @ - OneToken(endpoint)]) @@ map,
              events |-> <<Decision("reject", time, key, bucket.tokens), TooMany>>]
        ELSE [outcome |-> "admitted",
              buckets |-> (key :> [bucket EXCEPT !.tokens = @ - OneToken(endpoint)]) @@ map,
              events |-> <<Decision("admit", time, key, bucket.tokens)>>]

\* a new bucket that starts empty
CheckBucket_StartsEmpty(map, key, endpoint, time) ==
    LET known == key \in DOMAIN map
        bucket == IF known
                  THEN [tokens |-> Refill(map[key], endpoint, time), lastRefill |-> time]
                  ELSE [tokens |-> 0, lastRefill |-> time]
    IN  IF bucket.tokens < OneToken(endpoint)
        THEN [outcome |-> "rejected",
              buckets |-> (key :> bucket) @@ map,
              events |-> <<Decision("reject", time, key, bucket.tokens), TooMany>>]
        ELSE [outcome |-> "admitted",
              buckets |-> (key :> [bucket EXCEPT !.tokens = @ - OneToken(endpoint)]) @@ map,
              events |-> <<Decision("admit", time, key, bucket.tokens)>>]

\* a bucket that is never refilled
CheckBucket_NoRefill(map, key, endpoint, time) ==
    LET known == key \in DOMAIN map
        bucket == IF known
                  THEN [tokens |-> map[key].tokens, lastRefill |-> time]
                  ELSE [tokens |-> FullBucket(endpoint), lastRefill |-> time]
    IN  IF bucket.tokens < OneToken(endpoint)
        THEN [outcome |-> "rejected",
              buckets |-> IF known THEN [map EXCEPT ![key] = bucket] ELSE map,
              events |-> <<Decision("reject", time, key, bucket.tokens), TooMany>>]
        ELSE [outcome |-> "admitted",
              buckets |-> (key :> [bucket EXCEPT !.tokens = @ - OneToken(endpoint)]) @@ map,
              events |-> <<Decision("admit", time, key, bucket.tokens)>>]

\* lines 35-59, which run without an await: get the bucket or make a full one,
\* refill a known one in place, reject below one token, else take one and store.
\* A known bucket is the Map's own object, so its refill is kept on a reject; a
\* new one is put into the Map only by the set at line 59.
CheckBucket(map, key, endpoint, time) ==
    LET known == key \in DOMAIN map
        bucket == IF known
                  THEN [tokens |-> Refill(map[key], endpoint, time), lastRefill |-> time]
                  ELSE [tokens |-> FullBucket(endpoint), lastRefill |-> time]
    IN  IF bucket.tokens < OneToken(endpoint)
        THEN [outcome |-> "rejected",
              buckets |-> IF known THEN [map EXCEPT ![key] = bucket] ELSE map,
              events |-> <<Decision("reject", time, key, bucket.tokens), TooMany>>]
        ELSE [outcome |-> "admitted",
              buckets |-> (key :> [bucket EXCEPT !.tokens = @ - OneToken(endpoint)]) @@ map,
              events |-> <<Decision("admit", time, key, bucket.tokens)>>]

\* lines 13-29: the middleware is called and starts its endpoint select
RateLimitCall(p, urls, ips, maxCalls) ==
    /\ calls[p].pc \in {"idle", "returned"}
    /\ calls[p].n < maxCalls
    /\ \E url \in urls, ip \in ips :
         calls' = [calls EXCEPT ![p] = [pc |-> "select", url |-> url, ip |-> ip,
                                        outcome |-> Null, n |-> calls[p].n + 1]]
    /\ events' = Append(events, DbCall("select", "endpoints"))
    /\ UNCHANGED <<Stores, now, req, buckets, revocation, managers>>

\* a limiter that answers 429 when its select throws
RateLimitCheck_FailClosed(p) ==
    /\ calls[p].pc = "select"
    /\ \/ /\ calls' = [calls EXCEPT ![p].pc = "returned", ![p].outcome = "error"]
          /\ events' = Append(events, TooMany)
          /\ UNCHANGED buckets
       \/ \E endpoint \in FirstOf({e \in endpoints : e.route = calls[p].url}, NoEndpoint) :
            IF endpoint = NoEndpoint
            THEN /\ calls' = [calls EXCEPT ![p].pc = "returned", ![p].outcome = "unmanaged"]
                 /\ UNCHANGED <<buckets, events>>
            ELSE LET c == CheckBucket(buckets, <<calls[p].ip, endpoint.id>>, endpoint, now)
                 IN  /\ calls' = [calls EXCEPT ![p].pc = "returned", ![p].outcome = c.outcome]
                     /\ buckets' = c.buckets
                     /\ events' = events \o c.events
    /\ UNCHANGED <<Stores, now, req, revocation, managers>>

\* lines 25-64: the select throws (the catch lets the request through), or it
\* finds no endpoint with that route (return), or the bucket is checked
RateLimitCheck(p) ==
    /\ calls[p].pc = "select"
    /\ \/ /\ calls' = [calls EXCEPT ![p].pc = "returned", ![p].outcome = "error"]
          /\ UNCHANGED <<buckets, events>>
       \/ \E endpoint \in FirstOf({e \in endpoints : e.route = calls[p].url}, NoEndpoint) :
            IF endpoint = NoEndpoint
            THEN /\ calls' = [calls EXCEPT ![p].pc = "returned", ![p].outcome = "unmanaged"]
                 /\ UNCHANGED <<buckets, events>>
            ELSE LET c == CheckBucket(buckets, <<calls[p].ip, endpoint.id>>, endpoint, now)
                 IN  /\ calls' = [calls EXCEPT ![p].pc = "returned", ![p].outcome = c.outcome]
                     /\ buckets' = c.buckets
                     /\ events' = events \o c.events
    /\ UNCHANGED <<Stores, now, req, revocation, managers>>

\* time passes by a quarter of a second or by a second
Elapse ==
    /\ \E d \in ElapseSteps :
         /\ now + d <= MaxClock
         /\ now' = now + d
    /\ UNCHANGED <<Stores, req, events, Limiter, revocation, managers>>

\* ---------------------------------------------------------------- token revocation

\* no DELETE /api/tokens/:id in progress
IdleRevocation == [pc |-> "idle", id |-> Null, userId |-> Null]

\* the tokens a DELETE may name, one of them unknown, and who asks
RevokeIdInputs == {"t1", "t5", "t9"}
RevokeUserInputs == {"u1"}

\* a revocation that changes nothing
RevokeToken_Noop(tokens, tokenId) == tokens

\* TokenService.revokeToken: update api_tokens set is_active = false where id = tokenId
RevokeToken(tokens, tokenId) ==
    {IF t.id = tokenId THEN [t EXCEPT !.isActive = FALSE] ELSE t : t \in tokens}

\* tokens.ts 53-62: an authenticated DELETE /:id starts the ownership select
DeleteToken ==
    /\ revocation.pc = "idle"
    /\ \E id \in RevokeIdInputs, userId \in RevokeUserInputs :
         revocation' = [pc |-> "select", id |-> id, userId |-> userId]
    /\ events' = Append(events, DbCall("select", "apiTokens"))
    /\ UNCHANGED <<Stores, now, req, Limiter, managers>>

\* tokens.ts 58-70: the select throws (500), finds no token of this user (404),
\* or finds it and revokeToken starts its update
DeleteTokenSelect ==
    /\ revocation.pc = "select"
    /\ \/ /\ revocation' = [revocation EXCEPT !.pc = "done"]
          /\ events' = Append(events, SendMessage(500, DbError))
       \/ /\ ~\E t \in apiTokens : t.id = revocation.id /\ t.userId = revocation.userId
          /\ revocation' = [revocation EXCEPT !.pc = "done"]
          /\ events' = Append(events, SendMessage(404, "Token not found"))
       \/ /\ \E t \in apiTokens : t.id = revocation.id /\ t.userId = revocation.userId
          /\ revocation' = [revocation EXCEPT !.pc = "update"]
          /\ events' = Append(events, DbCall("update", "apiTokens"))
    /\ UNCHANGED <<Stores, now, req, Limiter, managers>>

\* tokens.ts 70-74: the update throws (500), or is done and the handler answers
DeleteTokenUpdate ==
    /\ revocation.pc = "update"
    /\ \/ /\ events' = Append(events, SendMessage(500, DbError))
          /\ UNCHANGED apiTokens
       \/ /\ apiTokens' = RevokeToken(apiTokens, revocation.id)
          /\ events' = Append(events, SendMessage(200, "Token revoked"))
    /\ revocation' = [revocation EXCEPT !.pc = "done"]
    /\ UNCHANGED <<endpoints, endpointApiTokens, endpointSchemas, callLogs, now, req, Limiter, managers>>

\* a request with or without the key of token t1, to the endpoints t1 is
\* associated with and to a public one
ReceiveRevoked ==
    ReceiveFrom({"e1", "e2", "e3", "e5"}, {"u1"}, {Null, "k1"}, {NoBody}, HeaderInputs)

\* ---------------------------------------------------------------- endpoint management

\* the management requests that can be in flight together, one for each
Managers == {1, 2}

\* the schemas table: whose schema is whose
Schemas ==
    { [id |-> "s1", userId |-> "u1"], [id |-> "s2", userId |-> "u1"],
      [id |-> "s3", userId |-> "u1"], [id |-> "s4", userId |-> "u2"] }

\* uuidv4(): an id no endpoint row has yet
NewIds == {"n1", "n2", "n3", "n4"}
FreshId == CHOOSE id \in NewIds : ~\E e \in endpoints : e.id = id

\* a field the body does not have: an array of ids, the route
Absent == {Null}
NoRoute == <<>>

\* no answer yet
NoReply == Ev("none", 0, "none", <<>>)

\* a request that has not come in. apiTokenIds and schemaIds are the sets of
\* the ids in the body's arrays; rows is what the handler's last select returned
IdleManager ==
    [pc |-> "idle", op |-> Null, userId |-> Null, id |-> Null, route |-> NoRoute,
     apiTokenIds |-> Absent, schemaIds |-> Absent, tokenId |-> Null, rows |-> {},
     reply |-> NoReply]

\* the handler goes on to its next store call
Goto(p, pc) == managers' = [managers EXCEPT ![p].pc = pc]
GotoWith(p, pc, rows) == managers' = [managers EXCEPT ![p].pc = pc, ![p].rows = rows]

\* the handler answers and ends
Reply(p, code, message) ==
    managers' = [managers EXCEPT ![p].pc = "done", ![p].reply = SendMessage(code, message)]

\* return { ...endpoint, apiTokens, schemas } / return { message }
Return(p, form) ==
    managers' = [managers EXCEPT ![p].pc = "done",
                                 ![p].reply = Ev("send", 200, form, <<managers[p].id>>)]

\* an awaited store call rejects: catch (error), answer 500, nothing written
Throws(p) == Reply(p, 500, DbError) /\ UNCHANGED Stores

\* a request comes in: authenticate has set request.user, the body is parsed
Arrive(p, op, pc, userIds, ids, routes, tokenIdSets, schemaIdSets, tokenIds) ==
    /\ managers[p].pc = "idle"
    /\ \E u \in userIds, id \in ids, r \in routes, ts \in tokenIdSets, ss \in schemaIdSets,
          t \in tokenIds :
         managers' = [managers EXCEPT ![p] =
                         [pc |-> pc, op |-> op, userId |-> u, id |-> id, route |-> r,
                          apiTokenIds |-> ts, schemaIds |-> ss, tokenId |-> t, rows |-> {},
                          reply |-> NoReply]]
    /\ UNCHANGED <<Stores, now, req, events, Limiter, revocation>>

\* what a management step leaves alone
Elsewhere(p) == UNCHANGED <<now, req, events, Limiter, revocation>>

\* the tokens of this user among the ids (select ... where userId and id in ids)
UserTokens(userId, ids) == {t.id : t \in {x \in apiTokens : x.userId = userId /\ x.id \in ids}}

\* the schemas of this user among the ids
UserSchemas(userId, ids) == {x.id : x \in {y \in Schemas : y.userId = userId /\ y.id \in ids}}

\* the association rows an insert writes
TokenRows(endpointId, ids) == {[endpointId |-> endpointId, apiTokenId |-> t] : t \in ids}

\* the schema rows an insert writes, order = index in the select's result, of
\* which order the select decides
SchemaRowSets(endpointId, ids) ==
    { {[endpointId |-> endpointId, schemaId |-> x, order |-> f[x]] : x \in ids} :
        f \in {g \in [ids -> 0..(Cardinality(ids) - 1)] :
                  \A x \in ids, y \in ids : g[x] = g[y] => x = y} }

\* endpoint_api_tokens_unique_idx / endpoint_schemas_unique_idx: an insert with
\* a row whose pair is in the table already is refused as a whole
TokenClash(rows) ==
    \E r \in rows, a \in endpointApiTokens :
        a.endpointId = r.endpointId /\ a.apiTokenId = r.apiTokenId
SchemaClash(rows) ==
    \E r \in rows, a \in endpointSchemas :
        a.endpointId = r.endpointId /\ a.schemaId = r.schemaId

\* ---- POST / (endpoints.ts 138-257)

\* 144-148 answered: 409 if the user has an endpoint with this route
CreateSelectRoute(p) ==
    /\ managers[p].pc = "createSelRoute"
    /\ \/ Throws(p)
       \/ /\ IF \E e \in endpoints : e.userId = managers[p].userId /\ e.route = managers[p].route
             THEN Reply(p, 409, "Endpoint with this route already exists")
             ELSE Goto(p, "createInsert")
          /\ UNCHANGED Stores
    /\ Elsewhere(p)

\* where POST / goes after the token part
CreateAfterTokens(p) ==
    IF managers[p].schemaIds # {} THEN "createSelSchemas" ELSE "createRead"

\* 155-170: the endpoint row is inserted
CreateInsert(p) ==
    /\ managers[p].pc = "createInsert"
    /\ \/ Throws(p)
       \/ /\ endpoints' = endpoints \cup
                 {Endpoint(FreshId, managers[p].userId, managers[p].route, TRUE)}
          /\ managers' = [managers EXCEPT
                 ![p].id = FreshId,
                 ![p].pc = IF managers[p].apiTokenIds # {} THEN "createSelTokens"
                           ELSE CreateAfterTokens(p)]
          /\ UNCHANGED <<apiTokens, endpointApiTokens, endpointSchemas, callLogs>>
    /\ Elsewhere(p)

\* 175-186: the user's tokens among the ids; 400 unless all of them
CreateSelectTokens(p) ==
    /\ managers[p].pc = "createSelTokens"
    /\ \/ Throws(p)
       \/ /\ LET userTokens == UserTokens(managers[p].userId, managers[p].apiTokenIds)
             IN  IF Cardinality(userTokens) # Cardinality(managers[p].apiTokenIds)
                 THEN Reply(p, 400, "Some tokens do not exist or do not belong to you")
                 ELSE GotoWith(p, "createInsTokens", userTokens)
          /\ UNCHANGED Stores
    /\ Elsewhere(p)

\* 188-194: the association rows are inserted
CreateInsertTokens(p) ==
    /\ managers[p].pc = "createInsTokens"
    /\ \/ Throws(p)
       \/ /\ ~TokenClash(TokenRows(managers[p].id, managers[p].rows))
          /\ endpointApiTokens' = endpointApiTokens \cup TokenRows(managers[p].id, managers[p].rows)
          /\ Goto(p, CreateAfterTokens(p))
          /\ UNCHANGED <<endpoints, apiTokens, endpointSchemas, callLogs>>
    /\ Elsewhere(p)

\* 200-211: the user's schemas among the ids; 400 unless all of them
CreateSelectSchemas(p) ==
    /\ managers[p].pc = "createSelSchemas"
    /\ \/ Throws(p)
       \/ /\ LET userSchemas == UserSchemas(managers[p].userId, managers[p].schemaIds)
             IN  IF Cardinality(userSchemas) # Cardinality(managers[p].schemaIds)
                 THEN Reply(p, 400, "Some schemas do not exist or do not belong to you")
                 ELSE GotoWith(p, "createInsSchemas", userSchemas)
          /\ UNCHANGED Stores
    /\ Elsewhere(p)

\* 213-220: the schema rows are inserted
CreateInsertSchemas(p) ==
    /\ managers[p].pc = "createInsSchemas"
    /\ \/ Throws(p)
       \/ /\ \E rows \in SchemaRowSets(managers[p].id, managers[p].rows) :
                /\ ~SchemaClash(rows)
                /\ endpointSchemas' = endpointSchemas \cup rows
          /\ Goto(p, "createRead")
          /\ UNCHANGED <<endpoints, apiTokens, endpointApiTokens, callLogs>>
    /\ Elsewhere(p)

\* 224-249: the two selects for the answer (they write nothing and are taken
\* as one step), then the endpoint is returned
CreateRead(p) ==
    /\ managers[p].pc = "createRead"
    /\ \/ Throws(p)
       \/ Return(p, "endpoint") /\ UNCHANGED Stores
    /\ Elsewhere(p)

\* ---- PATCH /:id (endpoints.ts 260-400)

\* 267-290 answered: 404 unless the user owns the endpoint; a new route is
\* looked up for a conflict
PatchSelect(p) ==
    /\ managers[p].pc = "patchSelect"
    /\ \/ Throws(p)
       \/ /\ LET found == {e \in endpoints : e.id = managers[p].id /\ e.userId = managers[p].userId}
             IN  IF found = {}
                 THEN Reply(p, 404, "Endpoint not found")
                 ELSE IF managers[p].route # NoRoute
                         /\ \E e \in found : e.route # managers[p].route
                 THEN Goto(p, "patchSelRoute")
                 ELSE Goto(p, "patchUpdate")
          /\ UNCHANGED Stores
    /\ Elsewhere(p)

\* 280-289 answered: 409 if the user has an endpoint with the new route
PatchSelectRoute(p) ==
    /\ managers[p].pc = "patchSelRoute"
    /\ \/ Throws(p)
       \/ /\ IF \E e \in endpoints : e.userId = managers[p].userId /\ e.route = managers[p].route
             THEN Reply(p, 409, "Endpoint with this route already exists")
             ELSE Goto(p, "patchUpdate")
          /\ UNCHANGED Stores
    /\ Elsewhere(p)

\* where PATCH goes after the token part
PatchAfterTokens(p) ==
    IF managers[p].schemaIds # Absent THEN "patchDelSchemas" ELSE "patchRead"

\* 293-309: the row with this id is updated with the fields of the body
PatchUpdate(p) ==
    /\ managers[p].pc = "patchUpdate"
    /\ \/ Throws(p)
       \/ /\ endpoints' =
                 {IF e.id = managers[p].id /\ managers[p].route # NoRoute
                  THEN [e EXCEPT !.route = managers[p].route] ELSE e : e \in endpoints}
          /\ Goto(p, IF managers[p].apiTokenIds # Absent THEN "patchDelTokens"
                     ELSE PatchAfterTokens(p))
          /\ UNCHANGED <<apiTokens, endpointApiTokens, endpointSchemas, callLogs>>
    /\ Elsewhere(p)

\* 314: every association of the endpoint is deleted
PatchDeleteTokens(p) ==
    /\ managers[p].pc = "patchDelTokens"
    /\ \/ Throws(p)
       \/ /\ endpointApiTokens' = {a \in endpointApiTokens : a.endpointId # managers[p].id}
          /\ Goto(p, IF managers[p].apiTokenIds # {} THEN "patchSelTokens"
                     ELSE PatchAfterTokens(p))
          /\ UNCHANGED <<endpoints, apiTokens, endpointSchemas, callLogs>>
    /\ Elsewhere(p)

\* the select without its userId condition
PatchSelectTokens_AnyUser(p) ==
    /\ managers[p].pc = "patchSelTokens"
    /\ \/ Throws(p)
       \/ /\ LET userTokens == {t.id : t \in {x \in apiTokens : x.id \in managers[p].apiTokenIds}}
             IN  IF userTokens # {}
                 THEN GotoWith(p, "patchInsTokens", userTokens)
                 ELSE Goto(p, PatchAfterTokens(p))
          /\ UNCHANGED Stores
    /\ Elsewhere(p)

\* 318-326: the user's tokens among the ids; the others are dropped silently
PatchSelectTokens(p) ==
    /\ managers[p].pc = "patchSelTokens"
    /\ \/ Throws(p)
       \/ /\ LET userTokens == UserTokens(managers[p].userId, managers[p].apiTokenIds)
             IN  IF userTokens # {}
                 THEN GotoWith(p, "patchInsTokens", userTokens)
                 ELSE Goto(p, PatchAfterTokens(p))
          /\ UNCHANGED Stores
    /\ Elsewhere(p)

\* 327-333: the new associations are inserted
PatchInsertTokens(p) ==
    /\ managers[p].pc = "patchInsTokens"
    /\ \/ Throws(p)
       \/ /\ ~TokenClash(TokenRows(managers[p].id, managers[p].rows))
          /\ endpointApiTokens' = endpointApiTokens \cup TokenRows(managers[p].id, managers[p].rows)
          /\ Goto(p, PatchAfterTokens(p))
          /\ UNCHANGED <<endpoints, apiTokens, endpointSchemas, callLogs>>
    /\ Elsewhere(p)

\* 341: every schema row of the endpoint is deleted
PatchDeleteSchemas(p) ==
    /\ managers[p].pc = "patchDelSchemas"
    /\ \/ Throws(p)
       \/ /\ endpointSchemas' = {a \in endpointSchemas : a.endpointId # managers[p].id}
          /\ Goto(p, IF managers[p].schemaIds # {} THEN "patchSelSchemas" ELSE "patchRead")
          /\ UNCHANGED <<endpoints, apiTokens, endpointApiTokens, callLogs>>
    /\ Elsewhere(p)

\* 345-353: the user's schemas among the ids
PatchSelectSchemas(p) ==
    /\ managers[p].pc = "patchSelSchemas"
    /\ \/ Throws(p)
       \/ /\ LET userSchemas == UserSchemas(managers[p].userId, managers[p].schemaIds)
             IN  IF userSchemas # {}
                 THEN GotoWith(p, "patchInsSchemas", userSchemas)
                 ELSE Goto(p, "patchRead")
          /\ UNCHANGED Stores
    /\ Elsewhere(p)

\* 354-361: the new schema rows are inserted
PatchInsertSchemas(p) ==
    /\ managers[p].pc = "patchInsSchemas"
    /\ \/ Throws(p)
       \/ /\ \E rows \in SchemaRowSets(managers[p].id, managers[p].rows) :
                /\ ~SchemaClash(rows)
                /\ endpointSchemas' = endpointSchemas \cup rows
          /\ Goto(p, "patchRead")
          /\ UNCHANGED <<endpoints, apiTokens, endpointApiTokens, callLogs>>
    /\ Elsewhere(p)

\* 367-392: the two selects for the answer, then the endpoint is returned
PatchRead(p) ==
    /\ managers[p].pc = "patchRead"
    /\ \/ Throws(p)
       \/ Return(p, "endpoint") /\ UNCHANGED Stores
    /\ Elsewhere(p)

\* ---- POST /:id/tokens (endpoints.ts 429-493)

\* 438-447 answered: 404 unless the user owns the endpoint
AddSelect(p) ==
    /\ managers[p].pc = "addSelect"
    /\ \/ Throws(p)
       \/ /\ IF \E e \in endpoints : e.id = managers[p].id /\ e.userId = managers[p].userId
             THEN Goto(p, "addSelTokens")
             ELSE Reply(p, 404, "Endpoint not found")
          /\ UNCHANGED Stores
    /\ Elsewhere(p)

\* 450-461: the user's tokens among the ids; 400 unless all of them
AddSelectTokens(p) ==
    /\ managers[p].pc = "addSelTokens"
    /\ \/ Throws(p)
       \/ /\ LET userTokens == UserTokens(managers[p].userId, managers[p].apiTokenIds)
             IN  IF Cardinality(userTokens) # Cardinality(managers[p].apiTokenIds)
                 THEN Reply(p, 400, "Some tokens do not exist or do not belong to you")
                 ELSE GotoWith(p, "addSelExisting", userTokens)
          /\ UNCHANGED Stores
    /\ Elsewhere(p)

\* 464-483: the tokens associated already are left out; nothing new, nothing
\* inserted
AddSelectExisting(p) ==
    /\ managers[p].pc = "addSelExisting"
    /\ \/ Throws(p)
       \/ /\ LET existingTokenIds ==
                    {a.apiTokenId : a \in {x \in endpointApiTokens :
                         x.endpointId = managers[p].id /\ x.apiTokenId \in managers[p].apiTokenIds}}
                 newTokens == managers[p].rows \ existingTokenIds
             IN  IF newTokens # {}
                 THEN GotoWith(p, "addInsert", newTokens)
                 ELSE Return(p, "Tokens associated successfully")
          /\ UNCHANGED Stores
    /\ Elsewhere(p)

\* 476-485: the new associations are inserted
AddInsert(p) ==
    /\ managers[p].pc = "addInsert"
    /\ \/ Throws(p)
       \/ /\ ~TokenClash(TokenRows(managers[p].id, managers[p].rows))
          /\ endpointApiTokens' = endpointApiTokens \cup TokenRows(managers[p].id, managers[p].rows)
          /\ Return(p, "Tokens associated successfully")
          /\ UNCHANGED <<endpoints, apiTokens, endpointSchemas, callLogs>>
    /\ Elsewhere(p)

\* ---- DELETE /:id/tokens/:tokenId (endpoints.ts 496-524)

\* 502-511 answered: 404 unless the user owns the endpoint
RemoveSelect(p) ==
    /\ managers[p].pc = "removeSelect"
    /\ \/ Throws(p)
       \/ /\ IF \E e \in endpoints : e.id = managers[p].id /\ e.userId = managers[p].userId
             THEN Goto(p, "removeDelete")
             ELSE Reply(p, 404, "Endpoint not found")
          /\ UNCHANGED Stores
    /\ Elsewhere(p)

\* 513-520: the association of this endpoint and token is deleted
RemoveDelete(p) ==
    /\ managers[p].pc = "removeDelete"
    /\ \/ Throws(p)
       \/ /\ endpointApiTokens' =
                 {a \in endpointApiTokens :
                     ~(a.endpointId = managers[p].id /\ a.apiTokenId = managers[p].tokenId)}
          /\ Return(p, "Token association removed")
          /\ UNCHANGED <<endpoints, apiTokens, endpointSchemas, callLogs>>
    /\ Elsewhere(p)

Init ==
    /\ endpoints = InitEndpoints
    /\ apiTokens = InitApiTokens
    /\ endpointApiTokens = InitEndpointApiTokens
    /\ endpointSchemas = InitEndpointSchemas
    /\ callLogs = <<>>
    /\ now = 1
    /\ req = IdleReq
    /\ events = <<>>
    /\ buckets = NoBuckets
    /\ calls = [p \in Callers |-> IdleCall]
    /\ revocation = IdleRevocation
    /\ managers = [p \in Managers |-> IdleManager]

Next ==
    \/ Receive
    \/ SelectEndpoint
    \/ SelectToken
    \/ SelectAssociation
    \/ UpdateLastUsed
    \/ SelectAssociatedTokens
    \/ SelectSchemas
    \/ Fetch
    \/ ReadResponseText
    \/ InsertLog
    \/ CatchSelectEndpoint
    \/ CatchSelectToken
    \/ CatchInsertLog
    \/ Tick

Spec == Init /\ [][Next]_vars

NextPayload ==
    \/ ReceivePayload
    \/ SelectEndpoint
    \/ SelectToken
    \/ SelectAssociation
    \/ UpdateLastUsed
    \/ SelectAssociatedTokens
    \/ SelectSchemas
    \/ Fetch
    \/ ReadResponseText
    \/ InsertLog
    \/ CatchSelectEndpoint
    \/ CatchSelectToken
    \/ CatchInsertLog
    \/ Tick

\* the same handler under requests of every body shape
SpecPayload == Init /\ [][NextPayload]_vars

NextLong ==
    \/ ReceiveLong
    \/ SelectEndpoint
    \/ SelectToken
    \/ SelectAssociation
    \/ UpdateLastUsed
    \/ SelectAssociatedTokens
    \/ SelectSchemas
    \/ Fetch
    \/ ReadLongResponseText
    \/ InsertLog
    \/ CatchSelectEndpoint
    \/ CatchSelectToken
    \/ CatchInsertLog
    \/ Tick

\* the same handler under bodies around the log limit
SpecLong == Init /\ [][NextLong]_vars

NextRevoke ==
    \/ DeleteToken
    \/ DeleteTokenSelect
    \/ DeleteTokenUpdate
    \/ ReceiveRevoked
    \/ SelectEndpoint
    \/ SelectToken
    \/ SelectAssociation
    \/ UpdateLastUsed
    \/ SelectAssociatedTokens
    \/ SelectSchemas
    \/ Fetch
    \/ ReadResponseText
    \/ InsertLog
    \/ CatchSelectEndpoint
    \/ CatchSelectToken
    \/ CatchInsertLog
    \/ Tick

\* a token being revoked while, before or after a request presents it
SpecRevoke == Init /\ [][NextRevoke]_vars

\* the token associations of the protected endpoint e1 are replaced by a
\* non-empty set while a request for e1 is handled
PatchAssociations ==
    Arrive(1, "patch", "patchSelect", {"u1"}, {"e1"}, {NoRoute, HttpsPrefix \o <<"z">>},
           {{"t1"}}, {Absent, {"s1"}}, {Null})

ReceiveDuringPatch == ReceiveFrom({"e1"}, {"u1"}, {Null, "k1"}, {NoBody}, HeaderInputs)

NextAssoc ==
    \/ PatchAssociations
    \/ PatchSelect(1)
    \/ PatchSelectRoute(1)
    \/ PatchUpdate(1)
    \/ PatchDeleteTokens(1)
    \/ PatchSelectTokens(1)
    \/ PatchInsertTokens(1)
    \/ PatchDeleteSchemas(1)
    \/ PatchSelectSchemas(1)
    \/ PatchInsertSchemas(1)
    \/ PatchRead(1)
    \/ ReceiveDuringPatch
    \/ SelectEndpoint
    \/ SelectToken
    \/ SelectAssociation
    \/ UpdateLastUsed
    \/ SelectAssociatedTokens
    \/ SelectSchemas
    \/ Fetch
    \/ ReadResponseText
    \/ InsertLog
    \/ CatchSelectEndpoint
    \/ CatchSelectToken
    \/ CatchInsertLog

SpecAssoc == Init /\ [][NextAssoc]_vars

\* the users who manage endpoints, and the endpoints they name: a public one
\* of u1 and the first one created
ManagingUsers == {"u1", "u2"}
ManagedIds == {"e2", "n1"}

\* POST /: a new route or one u1 has, own and foreign tokens and schemas
ManageCreate ==
    \E p \in Managers :
        Arrive(p, "create", "createSelRoute", ManagingUsers, {Null},
               {<<"/", "n">>, <<"/", "w">>}, {{}, {"t1"}, {"t5"}}, {{}, {"s1"}, {"s4"}},
               {Null})

\* PATCH /:id: a new route or none, a token set with a foreign token in it
ManagePatch ==
    \E p \in Managers :
        Arrive(p, "patch", "patchSelect", ManagingUsers, ManagedIds,
               {NoRoute, <<"/", "n">>}, {Absent, {"t1", "t5"}}, {Absent, {"s1"}},
               {Null})

\* POST /:id/tokens
ManageAdd ==
    \E p \in Managers :
        Arrive(p, "add", "addSelect", ManagingUsers, ManagedIds,
               {NoRoute}, {{"t1"}, {"t5"}}, {Absent}, {Null})

\* DELETE /:id/tokens/:tokenId
ManageRemove ==
    \E p \in Managers :
        Arrive(p, "remove", "removeSelect", ManagingUsers, {"e1", "n1"},
               {NoRoute}, {Absent}, {Absent}, {"t1", "t5"})

NextManage ==
    \/ ManageCreate
    \/ ManagePatch
    \/ ManageAdd
    \/ ManageRemove
    \/ \E p \in Managers : CreateSelectRoute(p)
    \/ \E p \in Managers : CreateInsert(p)
    \/ \E p \in Managers : CreateSelectTokens(p)
    \/ \E p \in Managers : CreateInsertTokens(p)
    \/ \E p \in Managers : CreateSelectSchemas(p)
    \/ \E p \in Managers : CreateInsertSchemas(p)
    \/ \E p \in Managers : CreateRead(p)
    \/ \E p \in Managers : PatchSelect(p)
    \/ \E p \in Managers : PatchSelectRoute(p)
    \/ \E p \in Managers : PatchUpdate(p)
    \/ \E p \in Managers : PatchDeleteTokens(p)
    \/ \E p \in Managers : PatchSelectTokens(p)
    \/ \E p \in Managers : PatchInsertTokens(p)
    \/ \E p \in Managers : PatchDeleteSchemas(p)
    \/ \E p \in Managers : PatchSelectSchemas(p)
    \/ \E p \in Managers : PatchInsertSchemas(p)
    \/ \E p \in Managers : PatchRead(p)
    \/ \E p \in Managers : AddSelect(p)
    \/ \E p \in Managers : AddSelectTokens(p)
    \/ \E p \in Managers : AddSelectExisting(p)
    \/ \E p \in Managers : AddInsert(p)
    \/ \E p \in Managers : RemoveSelect(p)
    \/ \E p \in Managers : RemoveDelete(p)

\* two management requests in flight together
SpecManage == Init /\ [][NextManage]_vars

\* one caller after the other, on a route with 5 tokens per second and on one
\* that is no endpoint's
LimiterCall == RateLimitCall(1, {<<"/", "w">>, <<"/", "x">>}, {"ip1"}, MaxCalls)
LimiterCheck == RateLimitCheck(1)

NextLimiter ==
    \/ LimiterCall
    \/ LimiterCheck
    \/ Elapse

SpecLimiter == Init /\ [][NextLimiter]_vars

\* two callers in flight together, on a route with 1 token per second
RaceCall == \E p \in Callers : RateLimitCall(p, {<<"/", "o">>}, {"ip1", "ip2"}, MaxRaceCalls)
RaceCheck == \E p \in Callers : RateLimitCheck(p)

NextRace ==
    \/ RaceCall
    \/ RaceCheck
    \/ Elapse

SpecRace == Init /\ [][NextRace]_vars

\* ---------------------------------------------------------------- properties

Done == req.pc = "done"

\* the replies sent so far, in order
SendEvents == SelectSeq(events, LAMBDA e : e.ev = "send")

HasEvent(e) == \E i \in 1..Len(events) : events[i] = e

\* a store call of the request failed and was handled by the outer catch
StoreFailed == req.errorMessage = DbError

\* the tables hold an active endpoint with the request's endpoint id and tenant id
Resolvable ==
    \E ep \in endpoints :
        ep.id = req.endpoint_id /\ ep.userId = req.user_id /\ ep.isActive

\* the tables hold an endpoint, active or not, with the request's ids
Addressed ==
    \E ep \in endpoints : ep.id = req.endpoint_id /\ ep.userId = req.user_id

\* the request's endpoint has at least one associated credential
HasCredentials == \E a \in endpointApiTokens : a.endpointId = req.endpoint_id

\* the request carries no credential (no header, or an empty one)
NoCredential == req.apiKey \in {Null, ""}

\* the endpoint select has been answered or has failed
PastLookup == req.pc \notin {"idle", "selEndpoint"}

\* C1: on every exit path of the handler exactly one reply is sent: never a
\* second one, and once the handler has reached an exit (or is only logging) one
\* has been sent.
C1_ExactlyOneResponse ==
    /\ Sends(events) <= 1
    /\ req.pc \in {"insLog", "catchSelEndpoint", "catchSelToken", "catchInsLog", "done"}
         => Sends(events) = 1

\* a request ended by the outer catch: one reply, a 500, and its log row written
C1_Witness ==
    /\ Done
    /\ SendEvents = <<SendMessage(500, DbError)>>
    /\ Len(callLogs) = 1

\* C2: every request whose endpoint resolution succeeded attempts a call-log
\* insert before the handler ends, whatever the exit path (the catch block's
\* attempt counts also when it is cut short by the failure of its own endpoint
\* lookup).
C2_ResolvedRequestLogs ==
    (Done /\ req.endpoint # NoEndpoint) =>
        \/ InsertAttempts(events) >= 1
        \/ (StoreFailed /\ events[Len(events)] = DbCall("select", "endpoints"))

\* C3: at most one call-log insert is attempted per request, also when the insert
\* itself raised, and the handler only ever appends to call_logs: it issues no
\* update or delete on it and the rows already stored stay as they are.
C3_AtMostOneLogEntry ==
    /\ [](/\ InsertAttempts(events) <= 1
          /\ Len(callLogs) <= InsertAttempts(events)
          /\ \A i \in 1..Len(events) :
                events[i].text = <<"callLogs">> => events[i].ev = "insert")
    /\ [][/\ Len(callLogs') >= Len(callLogs)
          /\ SubSeq(callLogs', 1, Len(callLogs)) = callLogs]_vars

\* a 403 exit whose log insert failed: one attempt, nothing stored
C3_Witness ==
    /\ Done
    /\ req.statusCode = 403
    /\ InsertAttempts(events) = 1
    /\ callLogs = <<>>

\* C4 as claimed: whenever the endpoint was not resolved (no row, or the lookup
\* failed) nothing is logged, no credential is looked up and nothing is forwarded,
\* and a lookup that found no row is answered 404.
C4_UnresolvedLeavesNoTrace ==
    (PastLookup /\ req.endpoint = NoEndpoint) =>
        /\ InsertAttempts(events) = 0
        /\ callLogs = <<>>
        /\ ~HasEvent(DbCall("select", "apiTokens"))
        /\ Fetches(events) = 0
        /\ (Done /\ ~StoreFailed) =>
              SendEvents = <<SendMessage(404, "Endpoint not found or inactive")>>

\* C4 amended: an endpoint that is absent, of another tenant or inactive is
\* answered 404 and leaves no trace (no log, no credential lookup, no outbound
\* call); a failed endpoint lookup is answered 500 and nothing is forwarded (its
\* catch block may still look up the endpoint and the credential and log).
C4_Unresolved404 ==
    (PastLookup /\ (~Resolvable \/ req.endpoint = NoEndpoint)) =>
        /\ Fetches(events) = 0
        /\ IF StoreFailed
           THEN SendEvents = <<SendMessage(500, DbError)>>
           ELSE /\ Done
                /\ events = <<DbCall("select", "endpoints"),
                              SendMessage(404, "Endpoint not found or inactive")>>
                /\ callLogs = <<>>

\* an inactive endpoint, addressed with its owner's id and a valid credential
C4_Witness ==
    /\ Done
    /\ Addressed /\ ~Resolvable
    /\ req.apiKey = "k1"
    /\ SendEvents = <<SendMessage(404, "Endpoint not found or inactive")>>

\* C5: every outbound call is preceded by a rate-limit admission check, which is
\* itself preceded by the credential check.
C5_RateLimitBeforeForward ==
    \A k \in 1..Len(events) :
        events[k].ev = "fetch" =>
            \E i \in 1..k, j \in 1..k :
                /\ i < j
                /\ events[i] \in {DbCall("select", "apiTokens"),
                                   DbCall("select", "endpointApiTokens")}
                /\ events[j].ev = "hook"

\* C6: whenever a call-log insert is started, the reply has already been sent.
C6_ResponseBeforeLog ==
    \A i \in 1..Len(events) :
        events[i] = DbCall("insert", "callLogs") =>
            \E j \in 1..(i - 1) : events[j].ev = "send"

\* a relayed destination answer whose log row has been stored
C6_Witness ==
    /\ Done
    /\ Len(callLogs) = 1
    /\ callLogs[1].status = 200
    /\ Len(SendEvents) = 1 /\ SendEvents[1].code = 200

\* C7: the outcome of a call-log insert, success or failure, changes nothing the
\* caller sees: the step that ends the insert sends no reply, starts no other
\* store call (no retry) and ends the handler.
C7_LogFailureDiscarded ==
    [][(req.pc \in {"insLog", "catchInsLog"} /\ req'.pc # req.pc) =>
          (events' = events /\ req'.pc = "done")]_vars

\* a relayed 503 whose log insert failed: still the one reply, nothing stored
C7_Witness ==
    /\ Done
    /\ Len(SendEvents) = 1 /\ SendEvents[1].code = 503
    /\ InsertAttempts(events) = 1
    /\ callLogs = <<>>

\* C8 as claimed: a request without a credential to any endpoint that has an
\* associated credential is answered 403 'API token required' and not forwarded
\* (the store answering).
C8_RequiredEverywhere ==
    (Done /\ Addressed /\ HasCredentials /\ NoCredential /\ ~StoreFailed) =>
        /\ SendEvents = <<SendMessage(403, "API token required")>>
        /\ Fetches(events) = 0

\* C8 amended: a request without a credential to an endpoint that has an
\* associated credential is never forwarded; if the endpoint is active it is
\* answered 403 'API token required' (the store answering; an inactive endpoint
\* is answered 404).
C8_CredentialRequired ==
    (req.pc # "idle" /\ Addressed /\ HasCredentials /\ NoCredential) =>
        /\ Fetches(events) = 0
        /\ (Done /\ ~StoreFailed) =>
              SendEvents = <<SendMessage(IF Resolvable THEN 403 ELSE 404,
                                         IF Resolvable THEN "API token required"
                                         ELSE "Endpoint not found or inactive")>>

\* an empty credential header on a protected, active endpoint
C8_Witness ==
    /\ Done
    /\ Resolvable /\ HasCredentials
    /\ req.apiKey = ""
    /\ SendEvents = <<SendMessage(403, "API token required")>>
    /\ Len(callLogs) = 1

\* C9: a request without a credential to an active endpoint that has no
\* associated credential is never answered 403, and once the credential stage's
\* select has answered, the handler has gone on to the next stage (the schema
\* select that precedes the forward).
C9_PublicEndpointAdmitted ==
    (req.pc # "idle" /\ Resolvable /\ ~HasCredentials /\ NoCredential) =>
        /\ \A i \in 1..Len(events) : ~(events[i].ev = "send" /\ events[i].code = 403)
        /\ (req.pc \notin {"selEndpoint", "selAssocAny"} /\ ~StoreFailed) =>
              HasEvent(DbCall("select", "endpointSchemas"))

\* a public endpoint called without a credential, forwarded and answered 200
C9_Witness ==
    /\ Done
    /\ Resolvable /\ ~HasCredentials
    /\ req.apiKey = Null
    /\ Fetches(events) = 1
    /\ Len(SendEvents) = 1 /\ SendEvents[1].code = 200

\* C10: when the token select answers with a credential whose expiry is in the
\* past, the handler replies 403 'API token has expired' and logs it under that
\* credential's id, whether or not the credential is associated with the
\* endpoint.
C10_ExpiredPrecedence ==
    [][(/\ req.pc = "selToken"
        /\ req'.pc \notin {"selToken", "catchSelEndpoint"}
        /\ \E t \in apiTokens : /\ t.tokenValue = Hash(req.apiKey) /\ t.isActive
                                 /\ t.expiresAt # NullTime /\ t.expiresAt < now)
       => /\ events' = events \o <<SendMessage(403, "API token has expired"),
                                    DbCall("insert", "callLogs")>>
          /\ req'.pc = "insLog"
          /\ \E t \in apiTokens : t.tokenValue = Hash(req.apiKey)
                                   /\ req'.row.apiTokenId = t.id]_vars

\* an expired credential that is not associated with the endpoint either
C10_Witness ==
    /\ Done
    /\ Resolvable
    /\ \E t \in apiTokens :
          /\ t.tokenValue = Hash(req.apiKey) /\ t.isActive
          /\ t.expiresAt # NullTime /\ t.expiresAt < req.startTime
          /\ ~\E a \in endpointApiTokens :
                a.endpointId = req.endpoint_id /\ a.apiTokenId = t.id
    /\ SendEvents = <<SendMessage(403, "API token has expired")>>

\* the active credentials whose stored hash is the hash of the presented key
Matching == {t \in apiTokens : t.tokenValue = Hash(req.apiKey) /\ t.isActive}

\* a step of the handler in which the select it was waiting for has answered
Answered(pc) == req.pc = pc /\ req'.pc \notin {pc, "catchSelEndpoint"}

\* the handler rejects with this message: it replies 403 and starts the log
Rejects(message) ==
    /\ events' = events \o <<SendMessage(403, message), DbCall("insert", "callLogs")>>
    /\ req'.pc = "insLog"

\* C11: each credential failure is answered 403 with its own message - no active
\* credential matches: 'Invalid API token'; matched but expired: 'API token has
\* expired'; matched but not associated: 'API token is not authorized for this
\* endpoint'; required but absent: 'API token required' - and no request that
\* was answered 403 is ever forwarded.
C11_CredentialFailures ==
    /\ [][/\ (Answered("selToken") /\ Matching = {}) => Rejects("Invalid API token")
          /\ (Answered("selToken") /\ \E t \in Matching : IsExpired(t, now))
                => Rejects("API token has expired")
          /\ (Answered("selAssoc") /\ ~\E a \in endpointApiTokens :
                    a.endpointId = req.endpoint_id /\ a.apiTokenId = req.token.id)
                => Rejects("API token is not authorized for this endpoint")
          /\ (Answered("selAssocAny") /\ HasCredentials) => Rejects("API token required")
         ]_vars
    /\ [](\A i \in 1..Len(events) :
             (events[i].ev = "send" /\ events[i].code = 403)
                => (Fetches(events) = 0 /\ Len(SendEvents) = 1))

\* an active, unexpired credential presented to an endpoint it is not associated with
C11_Witness ==
    /\ Done
    /\ req.apiKey = "k5"
    /\ SendEvents = <<SendMessage(403, "API token is not authorized for this endpoint")>>
    /\ Fetches(events) = 0

\* the credential id a 403 is to be logged with
ExpectedCredentialId ==
    IF NoCredential \/ Matching = {} THEN {Null} ELSE {t.id : t \in Matching}

\* C12: every 403 credential failure starts a log insert for the resolved
\* endpoint, status 403 and the message sent; its credential id is null when no
\* credential was presented or none matched, and the matched credential's id
\* otherwise; what is stored is that row.
C12_Logged403 ==
    \A i \in 1..Len(events) :
        (events[i].ev = "send" /\ events[i].code = 403) =>
            /\ InsertAttempts(events) = 1
            /\ Resolvable
            /\ req.row.endpointId = req.endpoint_id
            /\ req.row.status = 403
            /\ <<req.row.errorMessage>> = events[i].text
            /\ req.row.apiTokenId \in ExpectedCredentialId
            /\ callLogs \in {<<>>, <<req.row>>}

\* an expired credential's 403, stored under that credential's id
C12_Witness ==
    /\ Done
    /\ Len(callLogs) = 1
    /\ callLogs[1].status = 403
    /\ callLogs[1].apiTokenId = "t3"
    /\ callLogs[1].endpointId = "e1"

\* the credential was validated: it matches, is active, was unexpired when the
\* request came in and is associated with the request's active endpoint
Validated(t) ==
    /\ Resolvable
    /\ t \in Matching
    /\ (t.expiresAt = NullTime \/ t.expiresAt >= req.startTime)
    /\ \E a \in endpointApiTokens : a.endpointId = req.endpoint_id /\ a.apiTokenId = t.id

\* C13: the credential table changes only by setting the last-used timestamp of
\* the one credential that was validated; a validated credential gets the update
\* before the handler goes on; a request answered 403 leaves the table as it was.
C13_LastUsedOnly ==
    /\ [][apiTokens' # apiTokens =>
            \E t \in apiTokens :
                /\ Validated(t)
                /\ apiTokens' = (apiTokens \ {t}) \cup {[t EXCEPT !.lastUsedAt = now]}]_vars
    /\ [](/\ (\E i \in 1..Len(events) : events[i] \in
                    {SendMessage(403, "Invalid API token"),
                     SendMessage(403, "API token has expired"),
                     SendMessage(403, "API token is not authorized for this endpoint"),
                     SendMessage(403, "API token required")})
               => apiTokens = InitApiTokens
          /\ (req.apiTokenId # Null /\ HasEvent(DbCall("select", "endpointSchemas")))
               => \E t \in apiTokens :
                     /\ Validated(t) /\ t.id = req.apiTokenId
                     /\ t.lastUsedAt \in req.startTime..now)

\* a validated credential, touched, and the request relayed
C13_Witness ==
    /\ Done
    /\ \E t \in apiTokens : t.id = "t1" /\ t.lastUsedAt = req.startTime
    /\ Len(SendEvents) = 1 /\ SendEvents[1].code = 200

\* ---------------------------------------------------------------- the forwarded body

\* the outbound call has been made
Forwarded == req.fetchInit # NoFetch

\* the body on the wire, read back as the destination reads it
Wire == JsonParse(req.fetchInit.body)
WireMembers == Wire.value.members

NonReserved(ms) == SelectSeq(ms, LAMBDA m : m[1] \notin ReservedKeys)

\* two object bodies that differ at most in what they say for the reserved keys
SameButReserved(a, b) ==
    /\ a.kind = "object" /\ b.kind = "object"
    /\ NonReserved(a.members) = NonReserved(b.members)

\* C14: the forwarded body is a JSON object whose user_id and endpoint_id are
\* those of the route the request resolved to, whatever the caller's body says;
\* and any request to the same endpoint whose body differs from this one only
\* in the reserved keys is forwarded with the very same body.
C14_CanonicalFieldsWin ==
    Forwarded =>
        /\ Wire.ok /\ Wire.value.kind = "object"
        /\ {"user_id", "endpoint_id"} \subseteq Keys(WireMembers)
        /\ Get(WireMembers, "user_id") = req.endpoint.userId
        /\ Get(WireMembers, "endpoint_id") = req.endpoint.id
        /\ \A other \in PayloadBodies :
              SameButReserved(other, req.body) =>
                  Stringify(ForwardingBody(req.user_id, req.endpoint_id, req.schemaId,
                                           RequestBodyObj(other))) = req.fetchInit.body

\* a body claiming another tenant, forwarded under the tenant of the route
C14_Witness ==
    /\ Forwarded
    /\ req.body = ObjectBody(<< <<"user_id", "spoofed">>, <<"order_amount", "99.99">> >>)
    /\ Get(WireMembers, "user_id") = "u1"
    /\ Get(WireMembers, "order_amount") = "99.99"

\* C15: when the caller's body is a JSON object, each of its keys other than
\* the three reserved ones is in the forwarded body with the caller's value,
\* and the forwarded body has no key besides the reserved ones and those.
C15_CallerKeysForwarded ==
    (Forwarded /\ req.body.kind = "object") =>
        /\ \A key \in Keys(req.body.members) \ ReservedKeys :
              /\ key \in Keys(WireMembers)
              /\ Get(WireMembers, key) = Get(req.body.members, key)
        /\ Keys(WireMembers) \subseteq ReservedKeys \cup Keys(req.body.members)
        /\ Cardinality(Keys(WireMembers)) = Len(WireMembers)

\* a body with reserved and custom keys, forwarded from an endpoint with no schema
C15_Witness ==
    /\ Forwarded
    /\ req.body = ObjectBody(<< <<"schema_id", "sx">>, <<"endpoint_id", "e2">>,
                                <<"order_amount", "99.99">> >>)
    /\ Keys(WireMembers) = {"user_id", "endpoint_id", "order_amount"}
    /\ Get(WireMembers, "order_amount") = "99.99"

\* the schema associations of the endpoint the request resolved to
SchemaRows == {s \in endpointSchemas : s.endpointId = req.endpoint.id}

\* C16: the forwarded body has a schema_id exactly when the endpoint has an
\* associated schema, and its value is then an associated schema of the least
\* order, whatever the caller's body says for that key.
C16_SchemaIdFromAssociation ==
    Forwarded =>
        /\ "schema_id" \in Keys(WireMembers) <=> SchemaRows # {}
        /\ SchemaRows # {} =>
              \E s \in SchemaRows :
                  /\ \A other \in SchemaRows : s.order <= other.order
                  /\ Get(WireMembers, "schema_id") = s.schemaId

\* the caller names a schema of its own; the endpoint's first schema is forwarded
C16_Witness ==
    /\ Forwarded
    /\ req.endpoint.id = "e1"
    /\ "schema_id" \in Keys(req.body.members)
    /\ Get(req.body.members, "schema_id") = "sx"
    /\ Get(WireMembers, "schema_id") = "s2"

\* the caller's body is no JSON object: absent, null, an array, a number, a
\* boolean, or a text that is not the text of a JSON object
NonObjectBody ==
    /\ req.body.kind # "object"
    /\ ~(/\ req.body.kind = "string"
         /\ JsonParse(req.body.text).ok
         /\ JsonParse(req.body.text).value.kind = "object")

\* C17: a request whose body is no JSON object is forwarded with exactly the
\* canonical fields, and its body never makes the request fail.
C17_NonObjectBodyCanonical ==
    (req.pc # "idle" /\ NonObjectBody) =>
        /\ ~HasEvent(SendMessage(500, KeysError))
        /\ Forwarded =>
              /\ Wire.ok /\ Wire.value.kind = "object"
              /\ Keys(WireMembers) =
                    {"user_id", "endpoint_id"}
                      \cup (IF SchemaRows # {} THEN {"schema_id"} ELSE {})

\* ---------------------------------------------------------------- the outbound call

\* the schema select was answered and the body was built without a throw: the
\* handler has come to the route check
RouteChecked ==
    /\ HasEvent(DbCall("select", "endpointSchemas"))
    /\ req.pc # "selSchemas"
    /\ req.errorMessage \notin {DbError, KeysError}

RouteMessage == "Route must be a full URL (starting with http:// or https://)"

\* C18: for an endpoint whose route starts with neither http:// nor https://
\* no outbound call is ever made, and a request that comes to the route check is
\* answered 400 with the message that the route must be a full URL, and ends.
C18_RouteMustBeFullUrl ==
    (req.endpoint # NoEndpoint /\ ~IsFullUrl(req.endpoint.route)) =>
        /\ ~Forwarded
        /\ Fetches(events) = 0
        /\ RouteChecked => (Done /\ SendEvents = <<SendMessage(400, RouteMessage)>>)

\* the bare path /w: the credential passes, the route does not
C18_Witness ==
    /\ Done
    /\ req.endpoint.id = "e5"
    /\ req.apiTokenId = "t1"
    /\ SendEvents = <<SendMessage(400, RouteMessage)>>
    /\ Fetches(events) = 0

\* the headers handed to fetch
OutHeaders == req.fetchInit.headers

\* C19: the outbound call is a POST whose Content-Type is application/json;
\* besides that header it carries Authorization and User-Agent, each exactly
\* when the inbound request has a non-empty one and then with its value, and
\* nothing else: neither x-api-key nor any other inbound header.
C19_HeaderAllowList ==
    Forwarded =>
        /\ req.fetchInit.method = "POST"
        /\ "Content-Type" \in Keys(OutHeaders)
        /\ Get(OutHeaders, "Content-Type") = "application/json"
        /\ Keys(OutHeaders) \subseteq {"Content-Type", "Authorization", "User-Agent"}
        /\ Cardinality(Keys(OutHeaders)) = Len(OutHeaders)
        /\ "Authorization" \in Keys(OutHeaders) <=> Truthy(req.headers.authorization)
        /\ "Authorization" \in Keys(OutHeaders) =>
              Get(OutHeaders, "Authorization") = req.headers.authorization
        /\ "User-Agent" \in Keys(OutHeaders) <=> Truthy(req.headers.userAgent)
        /\ "User-Agent" \in Keys(OutHeaders) =>
              Get(OutHeaders, "User-Agent") = req.headers.userAgent
        /\ \A i \in 1..Len(OutHeaders) :
              /\ Truthy(req.apiKey) => OutHeaders[i][2] # req.apiKey
              /\ Truthy(req.headers.cookie) => OutHeaders[i][2] # req.headers.cookie

\* a request with a credential, a cookie and an Authorization header but no
\* User-Agent: Content-Type and Authorization go out
C19_Witness ==
    /\ Forwarded
    /\ req.apiKey = "k1"
    /\ req.headers = Headers("Bearer a", Null, "sid=1")
    /\ OutHeaders = << <<"Content-Type", "application/json">>,
                       <<"Authorization", "Bearer a">> >>

\* ---------------------------------------------------------------- the relay

\* the destination has answered and its body has been read
Relayed == Forwarded /\ req.pc \in {"insLog", "done"} /\ req.errorMessage = Null

\* the reply carries the destination's body: the JSON value of its text when
\* the text is JSON (a JSON string as its characters), the text itself otherwise
CarriesBody(sent, text) ==
    IF ~JsonParse(text).ok THEN sent.form = "text" /\ sent.text = text
    ELSE IF JsonParse(text).value.kind = "string"
    THEN sent.form = "text" /\ sent.text = JsonParse(text).value.text
    ELSE sent.form = "json" /\ JsonParse(sent.text) = JsonParse(text)

FetchFailed == req.errorMessage = FetchError

\* the catch block's own endpoint select failed: its log is given up
CatchLookupFailed == Done /\ events[Len(events)] = DbCall("select", "endpoints")

\* C21: when the outbound call fails at the network level the caller is sent
\* 500 with the error's message, and nothing else; the catch block then
\* starts one log insert (unless its endpoint lookup fails), and what is stored
\* has status 500, the error's message and a null response body.
C21_UpstreamFailureLogged ==
    FetchFailed =>
        /\ SendEvents = <<SendMessage(500, FetchError)>>
        /\ (Done /\ ~CatchLookupFailed) => InsertAttempts(events) = 1
        /\ \A i \in 1..Len(callLogs) :
              /\ callLogs[i].status = 500
              /\ callLogs[i].errorMessage = FetchError
              /\ callLogs[i].responseBody = NullText
              /\ callLogs[i].endpointId = req.endpoint.id
        /\ Len(callLogs) <= 1

\* the fetch threw; the 500 went out and its log was stored
C21_Witness ==
    /\ Done
    /\ FetchFailed
    /\ Fetches(events) = 1
    /\ SendEvents = <<SendMessage(500, FetchError)>>
    /\ Len(callLogs) = 1
    /\ callLogs[1].status = 500
    /\ callLogs[1].errorMessage = FetchError
    /\ callLogs[1].responseBody = NullText

\* C22: no retries - for one inbound request at most one outbound call is ever
\* started, also when that call throws or the reading of its answer does.
C22_NoRetry == Fetches(events) <= 1

\* the call threw before any answer; the request ended with that one call
C22_Witness ==
    /\ Done
    /\ FetchFailed
    /\ req.forwardResponse = NoResponse
    /\ Fetches(events) = 1

\* the replies the gateway made up itself: every reply but a relayed answer
GatewayReplies == IF Relayed THEN <<>> ELSE SendEvents

\* C23: every failure reply the gateway generates - 400, 403, 404, 500 and the
\* rate limiter's rejection - is an object whose single field is `message`.
C23_FailuresAreMessages ==
    \A i \in 1..Len(GatewayReplies) :
        /\ GatewayReplies[i].code \in {400, 403, 404, 429, 500}
        /\ GatewayReplies[i].form = "message"

\* ---------------------------------------------------------------- log bodies

\* a stored body is the full text when that has at most LogBodyLimit units, and
\* its first LogBodyLimit units otherwise
StoredAsCut(stored, full) ==
    /\ ~stored.null
    /\ Len(stored.text) <= LogBodyLimit
    /\ Len(full) <= LogBodyLimit => stored.text = full
    /\ Len(full) > LogBodyLimit => stored.text = SubSeq(full, 1, LogBodyLimit)

\* the text of the caller's body that a log of this request is made from: a
\* text body as it came on the relay path, the JSON text of the body otherwise
FullRequestText ==
    IF Relayed /\ req.body.kind = "string" THEN req.body.text ELSE Stringify(req.body)

\* the rows this request has handed to the store, stored or not
HandedRows == (IF req.row = NoRow THEN {} ELSE {req.row}) \cup {callLogs[i] : i \in 1..Len(callLogs)}

\* C24: a logged request or response body is the full text up to 10240 units
\* and exactly its first 10240 units beyond that, on the relay path, the 403
\* paths and the catch path alike; the body sent to the destination and the
\* body relayed to the caller are complete whatever their length.
C24_LogBodiesCut ==
    /\ \A row \in HandedRows :
          /\ IF Falsy(req.body) THEN row.requestBody = NullText
             ELSE StoredAsCut(row.requestBody, FullRequestText)
          /\ IF Relayed THEN StoredAsCut(row.responseBody, req.forwardResponse.text)
             ELSE row.responseBody = NullText
    /\ Relayed => CarriesBody(SendEvents[1], req.forwardResponse.text)
    /\ Forwarded =>
          LET wire == Wire
              wireKeys == Keys(wire.value.members)
          IN  /\ wire.ok
              /\ req.body.kind = "object" =>
                    Keys(req.body.members) \subseteq ReservedKeys \cup wireKeys

\* a body and an answer both one unit over the limit: forwarded and relayed in
\* full, logged cut
C24_Witness ==
    /\ Done
    /\ req.body = ObjectBody(ManyMembers)
    /\ Len(Stringify(req.body)) = LogBodyLimit + 1
    /\ Len(req.fetchInit.body) > LogBodyLimit
    /\ Len(req.forwardResponse.text) = LogBodyLimit + 1
    /\ SendEvents[1].text = req.forwardResponse.text
    /\ Len(callLogs) = 1
    /\ Len(callLogs[1].requestBody.text) = LogBodyLimit
    /\ Len(callLogs[1].responseBody.text) = LogBodyLimit

\* ---------------------------------------------------------------- rate limiter

\* the limiter's decisions so far, in order: each with its time (code), its
\* bucket key and the count it was taken on (text)
Decisions == SelectSeq(events, LAMBDA e : e.form = "rateLimit")

\* the decisions for one bucket key
DecisionsFor(ip, endpointId) ==
    SelectSeq(Decisions, LAMBDA e : e.text[1] = ip /\ e.text[2] = endpointId)

\* C25: for the bucket of an endpoint with rateLimit 5 and rateLimitWindowMs
\* 1000: while no time has passed since its first call, the first five calls are
\* admitted and every later one is rejected; and a call made 1000 ms or more
\* after the call before it is admitted.
C25_FiveThenReject ==
    LET d == DecisionsFor("ip1", "e5")
    IN  \A i \in 1..Len(d) :
            /\ (\A j \in 1..i : d[j].code = d[1].code) => (d[i].ev = "admit" <=> i <= 5)
            /\ (i > 1 /\ d[i].code - d[i - 1].code >= 1000) => d[i].ev = "admit"

\* five admitted and a sixth rejected at one instant, a seventh admitted a
\* second later
C25_Witness ==
    LET d == DecisionsFor("ip1", "e5")
    IN  /\ Len(d) = 7
        /\ \A i \in 1..6 : d[i].code = d[1].code
        /\ \A i \in 1..5 : d[i].ev = "admit"
        /\ d[6].ev = "reject"
        /\ HasEvent(TooMany)
        /\ d[7].code = d[6].code + 1000
        /\ d[7].ev = "admit"

\* caller p's call is decided in this step: admitted or rejected
Decided(p) == calls[p].pc = "select" /\ calls'[p].outcome \in {"admitted", "rejected"}

\* the endpoint caller p's request is for, and its bucket key
CallEndpoint(p) == CHOOSE e \in endpoints : e.route = calls[p].url
CallKey(p) == <<calls[p].ip, CallEndpoint(p).id>>

\* the count the bucket of caller p's call holds once refilled, in units of
\* 1 / rateLimitWindowMs token: a full bucket if the key is new
Refilled(p) ==
    LET e == CallEndpoint(p)
        full == e.rateLimit * e.rateLimitWindowMs
        grown == buckets[CallKey(p)].tokens
                   + (now - buckets[CallKey(p)].lastRefill) * e.rateLimit
    IN  IF CallKey(p) \notin DOMAIN buckets THEN full
        ELSE IF grown > full THEN full ELSE grown

\* C26: a call that finds fewer than one token after the refill is rejected and
\* the bucket keeps the refilled count; a call that finds at least one token is
\* admitted and the bucket is left with exactly one token less.
C26_RejectKeepsAdmitTakes ==
    [][Decided(1) =>
          IF Refilled(1) < CallEndpoint(1).rateLimitWindowMs
          THEN /\ calls'[1].outcome = "rejected"
               /\ CallKey(1) \in DOMAIN buckets
               /\ buckets'[CallKey(1)].tokens = Refilled(1)
          ELSE /\ calls'[1].outcome = "admitted"
               /\ buckets'[CallKey(1)].tokens = Refilled(1) - CallEndpoint(1).rateLimitWindowMs]_vars

\* a call rejected on a quarter of a token, which the bucket still holds
C26_Witness ==
    /\ calls[1].outcome = "rejected"
    /\ <<"ip1", "e5">> \in DOMAIN buckets
    /\ buckets[<<"ip1", "e5">>] = [tokens |-> 250, lastRefill |-> now]
    /\ Decisions[Len(Decisions)] = Decision("reject", now, <<"ip1", "e5">>, 250)

\* C27: a call for a bucket key the Map does not hold yet is admitted: the
\* bucket is made with the endpoint's full rateLimit, and is stored holding
\* rateLimit - 1 tokens, refilled now. So the first decision for a key is never
\* a rejection.
C27_FirstCallAdmitted ==
    /\ [][(Decided(1) /\ CallKey(1) \notin DOMAIN buckets) =>
            /\ calls'[1].outcome = "admitted"
            /\ events' = Append(events, Decision("admit", now, CallKey(1),
                                  CallEndpoint(1).rateLimit * CallEndpoint(1).rateLimitWindowMs))
            /\ buckets' = (CallKey(1) :>
                             [tokens |-> (CallEndpoint(1).rateLimit - 1)
                                           * CallEndpoint(1).rateLimitWindowMs,
                              lastRefill |-> now]) @@ buckets]_vars
    /\ [](Decisions # <<>> => Decisions[1].ev = "admit")

\* the first call for the key: admitted on 5 tokens, 4 left in the stored bucket
C27_Witness ==
    /\ Len(Decisions) = 1
    /\ Decisions[1] = Decision("admit", now, <<"ip1", "e5">>, 5000)
    /\ calls[1].outcome = "admitted"
    /\ buckets = (<<"ip1", "e5">> :> [tokens |-> 4000, lastRefill |-> now])

\* C28: the bucket section runs without interruption, whatever the interleaving
\* of the callers: of two calls for one key at the same instant the later one
\* is decided on the count the earlier one left, never on the same count; so on
\* a budget of 1 token per 1000 ms two calls are both admitted only if 1000 ms
\* or more lie between them.
C28_BucketSerialized ==
    \A ip \in {"ip1", "ip2"} :
        LET d == DecisionsFor(ip, "e6")
        IN  \A i \in 1..Len(d), j \in 1..Len(d) :
                (i < j /\ d[i].ev = "admit") =>
                    /\ d[j].code = d[i].code => (d[j].text # d[i].text /\ d[j].ev = "reject")
                    /\ d[j].ev = "admit" => d[j].code - d[i].code >= 1000

\* two callers in flight together for one key - both selects were started
\* before either was decided - and no time passed: one admitted, one rejected
C28_Witness ==
    /\ Len(events) = 5
    /\ events[1] = DbCall("select", "endpoints")
    /\ events[2] = DbCall("select", "endpoints")
    /\ events[3] = Decision("admit", now, <<"ip1", "e6">>, 1000)
    /\ events[4] = Decision("reject", now, <<"ip1", "e6">>, 0)
    /\ events[5] = TooMany
    /\ calls[1].n = 1 /\ calls[2].n = 1
    /\ {calls[1].outcome, calls[2].outcome} = {"admitted", "rejected"}

\* ---------------------------------------------------------------- revoked tokens

\* where in the history the DELETE was answered 'Token revoked'
RevokedAt == {i \in 1..Len(events) : events[i] = SendMessage(200, "Token revoked")}

\* where in the history the handler of the dynamic route started
StartedAt == {j \in 1..Len(events) : events[j] = DbCall("select", "endpoints")}

\* the current request carries the key of the token the DELETE named, and its
\* handler started after the DELETE was answered 'Token revoked'
PresentsRevoked ==
    /\ req.pc # "idle"
    /\ req.apiKey # Null
    /\ \E t \in apiTokens : t.id = revocation.id /\ t.tokenValue = Hash(req.apiKey)
    /\ \E i \in RevokedAt : \A j \in StartedAt : i < j

\* the token the DELETE named is associated with the request's endpoint
RevokedIsAssociated ==
    \E a \in endpointApiTokens :
        a.endpointId = req.endpoint_id /\ a.apiTokenId = revocation.id

\* the replies sent since the DELETE was answered
SendsSinceRevoked ==
    SelectSeq([k \in 1..Len(events) |->
                  IF \E i \in RevokedAt : i < k THEN events[k] ELSE DbCall("skip", "skip")],
              LAMBDA e : e.ev = "send")

\* C29 as claimed: a request that presents a token after its revocation was
\* completed, to any endpoint the token was associated with, is answered 403
\* and not forwarded (the store answering).
C29_Revoked403Everywhere ==
    (Done /\ PresentsRevoked /\ RevokedIsAssociated /\ ~StoreFailed) =>
        /\ Len(SendsSinceRevoked) = 1
        /\ SendsSinceRevoked[1].code = 403
        /\ Fetches(events) = 0

\* C29 amended: a request that presents a token after its revocation was
\* completed, to an endpoint the token was associated with, is never
\* forwarded; if the endpoint is active it is answered 403 'Invalid API token'
\* (the store answering; an inactive endpoint is answered 404).
C29_RevokedNeverForwarded ==
    (PresentsRevoked /\ RevokedIsAssociated) =>
        /\ Fetches(events) = 0
        /\ ~Forwarded
        /\ (Done /\ ~StoreFailed) =>
              SendsSinceRevoked = <<SendMessage(IF Resolvable THEN 403 ELSE 404,
                                                IF Resolvable THEN "Invalid API token"
                                                ELSE "Endpoint not found or inactive")>>

\* token t1 is revoked, then its key is presented to endpoint e5 and rejected
C29_Witness ==
    /\ Done
    /\ PresentsRevoked /\ RevokedIsAssociated
    /\ req.endpoint_id = "e5"
    /\ SendsSinceRevoked = <<SendMessage(403, "Invalid API token")>>
    /\ \A t \in apiTokens : t.id = "t1" => ~t.isActive
    /\ Len(callLogs) = 1

\* ---------------------------------------------------------------- the credential stage

\* the handler is between the header read at dynamic.ts 54 and the schema
\* select at 253: at one of the stage's four store calls
CredentialStage == {"selToken", "selAssoc", "updLastUsed", "selAssocAny"}

\* the stage's rejections
CredentialMessages ==
    {"Invalid API token", "API token has expired",
     "API token is not authorized for this endpoint", "API token required"}

\* a step of the stage writes nothing but the last-used timestamp of one token
StageWritesLastUsedOnly ==
    /\ UNCHANGED <<endpoints, endpointApiTokens, endpointSchemas, callLogs>>
    /\ apiTokens' # apiTokens =>
          \E t \in apiTokens :
              apiTokens' = (apiTokens \ {t}) \cup {[t EXCEPT !.lastUsedAt = now]}

\* the side-effect half of C30 on its own
CredentialStageEffects == [][req.pc \in CredentialStage => StageWritesLastUsedOnly]_vars

\* C30: every step of the credential stage either stays in the stage, or ends
\* it with a status - the handler goes on to the schema select (NONE, VALID) or
\* rejects with one of the stage's 403 messages (INVALID, EXPIRED,
\* UNAUTHORIZED_FOR_ENDPOINT) - whatever the stores answer, and writes nothing
\* but the last-used timestamp.
C30_ValidationNeverRaises ==
    [][req.pc \in CredentialStage =>
          /\ \/ req'.pc \in CredentialStage
             \/ req'.pc = "selSchemas"
             \/ \E m \in CredentialMessages : Rejects(m)
          /\ StageWritesLastUsedOnly]_vars

\* ---------------------------------------------------------------- bucket bounds

\* the endpoint a stored bucket belongs to
BucketEndpoint(key) == CHOOSE e \in endpoints : e.id = key[2]

\* C31: every stored bucket holds at least 0 and at most its endpoint's
\* rateLimit tokens, and was last refilled no later than now.
C31_BucketInBounds ==
    \A key \in DOMAIN buckets :
        /\ 0 <= buckets[key].tokens
        /\ buckets[key].tokens <= FullBucket(BucketEndpoint(key))
        /\ buckets[key].lastRefill <= now

\* a bucket that was emptied (a call was rejected on it) and, a second later,
\* refilled up to the cap and drawn on once
C31_Witness ==
    /\ HasEvent(TooMany)
    /\ <<"ip1", "e5">> \in DOMAIN buckets
    /\ buckets[<<"ip1", "e5">>].lastRefill > 1000
    /\ buckets[<<"ip1", "e5">>].tokens = 4 * OneToken(BucketEndpoint(<<"ip1", "e5">>))
    /\ Decisions[Len(Decisions)] = Decision("admit", now, <<"ip1", "e5">>, 5000)

\* ---------------------------------------------------------------- admissions per interval

\* how many of the decisions d[i..j] are admissions
Admitted(d, i, j) == Cardinality({k \in i..j : d[k].ev = "admit"})

\* the bucket keys the callers can name
BucketKeys == {<<ip, e.id>> : ip \in {"ip1", "ip2"}, e \in endpoints}

\* C32: for every bucket key, the calls admitted between any two of its
\* decisions, T ms apart, number at most rateLimit + T / rateLimitWindowMs *
\* rateLimit (both sides multiplied by rateLimitWindowMs).
C32_AdmissionsBounded ==
    \A key \in BucketKeys :
        LET d == DecisionsFor(key[1], key[2])
            e == BucketEndpoint(key)
        IN  \A i \in 1..Len(d), j \in 1..Len(d) :
                i <= j =>
                    Admitted(d, i, j) * e.rateLimitWindowMs
                        <= FullBucket(e) + (d[j].code - d[i].code) * e.rateLimit

\* more admissions than the bucket holds: five at one instant, a rejection, and
\* a sixth admitted 250 ms later on the 1.25 tokens refilled since
C32_Witness ==
    LET d == DecisionsFor("ip1", "e5")
    IN  /\ Len(d) = 7
        /\ Admitted(d, 1, 7) = 6
        /\ d[6].ev = "reject"
        /\ d[7].code - d[1].code = 250
        /\ d[7] = Decision("admit", now, <<"ip1", "e5">>, 1250)

\* ---------------------------------------------------------------- bucket frame

\* C33: no step removes a bucket; the Map changes only when a call is decided,
\* and then only at that call's key - every other bucket is left as it was.
C33_OtherBucketsUntouched ==
    [][/\ DOMAIN buckets \subseteq DOMAIN buckets'
       /\ buckets' # buckets => \E p \in Callers : Decided(p)
       /\ \A p \in Callers :
            Decided(p) =>
                /\ DOMAIN buckets' \subseteq DOMAIN buckets \cup {CallKey(p)}
                /\ \A key \in DOMAIN buckets \ {CallKey(p)} : buckets'[key] = buckets[key]]_vars

\* two clients of one endpoint, each with its own bucket: the second client's
\* call, made later, was admitted on a full bucket and left the first one's
\* bucket as it was
C33_Witness ==
    /\ DOMAIN buckets = {<<"ip1", "e6">>, <<"ip2", "e6">>}
    /\ buckets[<<"ip1", "e6">>] = [tokens |-> 0, lastRefill |-> 1]
    /\ buckets[<<"ip2", "e6">>] = [tokens |-> 0, lastRefill |-> now]
    /\ now > 1
    /\ Decisions[Len(Decisions)] = Decision("admit", now, <<"ip2", "e6">>, 1000)

\* ---------------------------------------------------------------- the limiter fails open

\* no endpoint has the route of the call in progress
Unmanaged == ~\E e \in endpoints : e.route = calls[1].url

\* C34: a call whose endpoint select throws, or finds no endpoint with the
\* request's route, returns without a reply - no 429, no event at all - and
\* leaves the bucket map as it was.
C34_FailsOpen ==
    [][(calls[1].pc = "select" /\ calls'[1].pc # "select"
            /\ (Unmanaged \/ calls'[1].outcome = "error")) =>
          /\ calls'[1].pc = "returned"
          /\ calls'[1].outcome \in {"error", "unmanaged"}
          /\ events' = events
          /\ buckets' = buckets]_vars

\* five calls took the bucket's five tokens; the select of the sixth, made at
\* the same instant, threw: it was let through and the empty bucket kept
C34_Witness ==
    /\ calls[1] = [pc |-> "returned", url |-> <<"/", "w">>, ip |-> "ip1",
                   outcome |-> "error", n |-> 6]
    /\ buckets = (<<"ip1", "e5">> :> [tokens |-> 0, lastRefill |-> now])
    /\ ~HasEvent(TooMany)

\* ---------------------------------------------------------------- presented credentials

\* the request carries a non-empty credential header
Presented == Truthy(req.apiKey)

\* C35: a request that presents a non-empty credential is forwarded only if
\* the credential was validated - active match, unexpired, associated with the
\* request's endpoint; and on an active endpoint that has no associated
\* credential at all such a request is answered 403 and not forwarded (the
\* store answering).
C35_PresentedIsChecked ==
    /\ (Presented /\ (Forwarded \/ Fetches(events) > 0)) => \E t \in apiTokens : Validated(t)
    /\ (Done /\ Presented /\ Resolvable /\ ~HasCredentials /\ ~StoreFailed) =>
          /\ Len(SendEvents) = 1
          /\ SendEvents[1].code = 403
          /\ Fetches(events) = 0

\* a valid key of the same user presented to the public endpoint e2
C35_Witness ==
    /\ Done
    /\ req.endpoint_id = "e2" /\ req.user_id = "u1" /\ req.apiKey = "k1"
    /\ ~HasCredentials
    /\ SendEvents = <<SendMessage(403, "API token is not authorized for this endpoint")>>
    /\ Fetches(events) = 0
    /\ Len(callLogs) = 1

\* ---------------------------------------------------------------- associations being replaced

\* the request's endpoint had an associated credential before any PATCH, and
\* the PATCH in progress or done, if there is one, names a non-empty set of the
\* user's own tokens for it
RequiredBeforeAndAfter ==
    /\ \E a \in InitEndpointApiTokens : a.endpointId = req.endpoint_id
    /\ \A p \in Managers :
          (managers[p].op = "patch" /\ managers[p].id = req.endpoint_id) =>
              /\ managers[p].apiTokenIds # Absent
              /\ UserTokens(managers[p].userId, managers[p].apiTokenIds) # {}

\* the request got past the credential stage
Admitted403Free == HasEvent(DbCall("select", "endpointSchemas"))

\* C36: a request without a credential, for an endpoint that requires one
\* before the PATCH and after it, never gets past the credential stage and is
\* never forwarded, whenever it arrives.
C36_RequiredThroughoutPatch ==
    (req.pc # "idle" /\ NoCredential /\ RequiredBeforeAndAfter) =>
        /\ ~Admitted403Free
        /\ ~Forwarded
        /\ Fetches(events) = 0

\* ---------------------------------------------------------------- management

\* the creation handled by p was answered 400
Create400(p) ==
    /\ managers[p].op = "create"
    /\ managers[p].reply \in
          {SendMessage(400, "Some tokens do not exist or do not belong to you"),
           SendMessage(400, "Some schemas do not exist or do not belong to you")}

\* C37: a creation that was answered 400 has left no endpoint row and no
\* association row of its own in the tables.
C37_Create400WritesNothing ==
    \A p \in Managers :
        Create400(p) =>
            /\ ~\E e \in endpoints : e.id = managers[p].id
            /\ ~\E a \in endpointApiTokens : a.endpointId = managers[p].id
            /\ ~\E a \in endpointSchemas : a.endpointId = managers[p].id

\* C38: no user has two endpoints with one route.
C38_RouteUniquePerUser ==
    \A e \in endpoints, f \in endpoints :
        (e.userId = f.userId /\ e.route = f.route) => e.id = f.id

\* C39: every association links an endpoint and a token of one user.
C39_AssociationsWithinTenant ==
    \A a \in endpointApiTokens, e \in endpoints, t \in apiTokens :
        (e.id = a.endpointId /\ t.id = a.apiTokenId) => e.userId = t.userId

\* u1 replaced the associations of e2 by a set with a token of u2 in it: the
\* PATCH was answered 200 and only u1's own token is associated
C39_Witness ==
    \E p \in Managers :
        /\ managers[p].op = "patch" /\ managers[p].userId = "u1" /\ managers[p].id = "e2"
        /\ managers[p].apiTokenIds = {"t1", "t5"}
        /\ managers[p].reply = Ev("send", 200, "endpoint", <<"e2">>)
        /\ {a.apiTokenId : a \in {x \in endpointApiTokens : x.endpointId = "e2"}} = {"t1"}

\* ---------------------------------------------------------------- the logged request body

\* C40: the request body of every log row is made from the caller's body alone
\* - null for no body, else its text cut at the limit; for an object body the
\* logged text reads back as the caller's object, spoofed reserved keys and
\* all, with no field added; and it is not the text that was sent on whenever
\* that differs from the caller's.
C40_LogKeepsOriginalBody ==
    \A row \in HandedRows :
        LET logged == row.requestBody
            full == FullRequestText
        IN  IF Falsy(req.body) THEN logged = NullText
            ELSE /\ logged = Text(Truncate(full))
                 /\ (req.body.kind = "object" /\ Len(full) <= LogBodyLimit) =>
                       JsonParse(logged.text) = Parsed(req.body)
                 /\ (Forwarded /\ req.fetchInit.body # full) =>
                       logged.text # req.fetchInit.body

\* a body with a spoofed user_id, relayed: the destination got the real user
\* id and the schema id, the log has the caller's text
C40_Witness ==
    /\ Done /\ Relayed
    /\ req.endpoint_id = "e1"
    /\ req.body = ObjectBody(<< <<"user_id", "spoofed">>, <<"order_amount", "99.99">> >>)
    /\ Get(Wire.value.members, "user_id") = "u1"
    /\ "schema_id" \in Keys(Wire.value.members)
    /\ Len(callLogs) = 1
    /\ callLogs[1].requestBody = Text(Stringify(req.body))
    /\ Get(JsonParse(callLogs[1].requestBody.text).value.members, "user_id") = "spoofed"

====
